---- MODULE Spec2Model ----
(***************************************************************************)
(* The resilient multi-endpoint fetch routine of the AuditFi front-end:    *)
(* fetchAllChainAudits (reports page) and its duplicate fetchUserStats     *)
(* (profile page).  One aggregation run walks the configured networks;     *)
(* for each network it makes up to maxRetries rounds over the network's    *)
(* RPC endpoints, each attempt being a count query followed by a bulk      *)
(* fetch, both raced against a timer.  The program position `pc` names the *)
(* statement the routine is at; the values "count", "bulk", "pause" and    *)
(* "backoff" are the four awaits at which it is suspended.                 *)
(***************************************************************************)
EXTENDS Integers, Sequences, FiniteSets, TLC

(***************************************************************************)
(* Bounds of the model.                                                    *)
(***************************************************************************)
\* number of entries of CHAIN_CONFIG walked by the run
NumChains == 2
\* number of audits stored in each network's registry
RegSize == 2
\* number of faulty bulk responses (arrays of unequal length, or an element
\* whose processing raises) the endpoints give in one run
MaxFaulty == 1
\* number of earlier runs of fetchUserStats in flight beside the latest
MaxEarlier == 1
\* sizes of the large responses: up to MaxBatches full batches and up to
\* MaxExtra audits more
MaxBatches == 2
MaxExtra == 20

\* the width in bits the model gives uint256
UintBits == 1

\* how many tokens of the collection are minted at most
MaxTokens == 1

(***************************************************************************)
(* Program constants.                                                      *)
(***************************************************************************)
maxRetries == 3
baseDelay == 2000
batchSize == 50
recentCount == 5

\* CHAIN_CONFIG[...].rpcUrls: the ordered endpoint list of a network
rpcUrls == <<"https://monad-testnet.g.alchemy.com/v2", "https://testnet-rpc.monad.xyz">>

NumRpc == Len(rpcUrls)

\* Object.entries(CHAIN_CONFIG): the networks in configuration order
Chains == 1..NumChains

Routines == {"reports", "profile"}

(***************************************************************************)
(* Strings the code inspects.  An error message is a sequence of the parts *)
(* that String.includes is asked about; an address is a sequence of        *)
(* characters, so that toLowerCase is a real conversion.                   *)
(***************************************************************************)
Includes(message, part) == \E k \in 1..Len(message) : message[k] = part

LowerChar(ch) ==
  CASE ch = "A" -> "a"
    [] ch = "B" -> "b"
    [] ch = "C" -> "c"
    [] ch = "D" -> "d"
    [] OTHER -> ch

toLowerCase(s) == [k \in DOMAIN s |-> LowerChar(s[k])]

\* the wallet address handed to fetchUserStats
userAddress == <<"0", "x", "a", "B">>

(***************************************************************************)
(* The errors an attempt can end with.                                     *)
(***************************************************************************)
CountTimeoutError == [code |-> "NONE", message |-> <<"getTotalContracts", "timeout">>]
BulkTimeoutError == [code |-> "NONE", message |-> <<"getAllAudits", "timeout">>]
FormatError == [code |-> "NONE", message |-> <<"Invalid response format">>]
ProcessingError == [code |-> "NONE", message |-> <<"TypeError">>]

\* rejections of a call by the endpoint or the transport
RpcErrors ==
  { [code |-> "SERVER_ERROR", message |-> <<"server response", "503">>],
    [code |-> "NETWORK_ERROR", message |-> <<"network error">>],
    [code |-> "CALL_EXCEPTION", message |-> <<"execution reverted">>] }

IsTimeoutError(e) == e \in {CountTimeoutError, BulkTimeoutError}

\* the test of the catch block
IsTransient(e) ==
  \/ e.code = "SERVER_ERROR"
  \/ /\ e.message # <<>>
     /\ \/ Includes(e.message, "503")
        \/ Includes(e.message, "timeout")
        \/ Includes(e.message, "network error")

(***************************************************************************)
(* The registries.  Audit k (1-based) of network c; what an honest         *)
(* endpoint of network c returns for index k-1.                            *)
(***************************************************************************)
HashPool ==
  << <<"0", "x", "A", "1">>, <<"0", "x", "b", "2">>, <<"0", "x", "C", "3">> >>

AuditorPool == << <<"0", "x", "A", "b">>, <<"0", "x", "c", "d">>, <<"0", "x", "a", "B">> >>

RegistryAt(c, k) ==
  [ contractHash |-> HashPool[((k - 1) % Len(HashPool)) + 1],
    stars        |-> (k + c) % 6,
    summary      |-> IF k % 2 = 0 THEN "" ELSE "ok",
    auditor      |-> AuditorPool[((k + c) % Len(AuditorPool)) + 1],
    timestamp    |-> 1700000000 + ((3 * k + c) % 4) ]

(***************************************************************************)
(* What a bulk fetch can resolve to.  "invalid" is a missing result or one *)
(* whose contractHashes is not an array.  Otherwise the result holds five  *)
(* arrays: contractHashes of length n, and the four others of length n     *)
(* except the array named by `short`, of length `cut`.  `bad` is the       *)
(* 1-based index of an element whose processing raises (0: none).          *)
(***************************************************************************)
NoResult == [kind |-> "none", n |-> 0, short |-> "none", cut |-> 0, bad |-> 0]
InvalidResult == [kind |-> "invalid", n |-> 0, short |-> "none", cut |-> 0, bad |-> 0]

Fields == {"stars", "summaries", "auditors", "timestamps"}

WellFormed(n) == [kind |-> "arrays", n |-> n, short |-> "none", cut |-> n, bad |-> 0]

Results(n) ==
  {WellFormed(n)}
    \cup {[WellFormed(n) EXCEPT !.short = f, !.cut = m] : f \in Fields, m \in 0..(n - 1)}
    \cup {[WellFormed(n) EXCEPT !.bad = b] : b \in 1..n}

IsArrays(res) == res.kind = "arrays"

LenOf(res, field) == IF res.short = field THEN res.cut ELSE res.n

Mismatched(res) == IsArrays(res) /\ \E f \in Fields : LenOf(res, f) # res.n

IsFaulty(res) == Mismatched(res) \/ res.bad # 0

VARIABLES
  routine,          \* which page's routine runs: "reports" or "profile"
  contractAddress,  \* CONTRACT_ADDRESSES: network -> has a registry address
  pc,               \* position of the run
  isLoading,        \* React state
  error,            \* React state
  reports,          \* React state of the reports page
  stats,            \* React state of the profile page
  allAudits,        \* local: the accumulated records
  chainCounts,      \* local of fetchUserStats
  totalStars,       \* local of fetchUserStats
  chainIdx,         \* position of the for-of over CHAIN_CONFIG
  success,          \* local
  retryCount,       \* local
  rpcIdx,           \* position of the for-of over rpcUrls
  result,           \* local: what the bulk fetch resolved to
  i,                \* local: start of the current batch
  totalContractsNum,\* local: the count the endpoint answered
  lastLog,          \* kind of the last console event
  attempts,         \* history: <<round, endpoint>> of the attempts for chainIdx
  waits,            \* history: the backoff waits started for chainIdx
  started,          \* history: the networks in the order they were begun
  outcome,          \* history: network -> how its processing ended
  acceptedLen,      \* history: network -> size of the response it accepted
  attemptBase,      \* history: allAudits when the current attempt began
  onlyTimeouts,     \* history: every failed attempt for chainIdx was a timeout
  faulty,           \* number of faulty bulk responses given so far
  abandoned,        \* history: a call to network chainIdx given up at its
                    \* timeout is still outstanding
  calls,            \* history: the calls issued in the attempt under way
  chunks,           \* history: the batches processed in the attempt under way
  twin,             \* history: what fetchAllChainAudits accumulates under the
                    \* same answers
  earlier,          \* number of earlier runs of the routine still in flight
  watch,            \* whether the histories `abandoned` and `twin` are recorded
  filters,          \* React state of the reports page: the FilterState
  shown,            \* what getFilteredReports returned to the last render
  clock,            \* what Date.now() / 1000 gave the last render
  ethereum,         \* whether window.ethereum is present
  known,            \* the wallet: the chains it has been given
  walletChain,      \* the wallet: the chain it is on, 0 for any other chain
  swPc,             \* position of the call of switchNetwork
  swChain,          \* the chainKey switchNetwork was called with
  requests,         \* history: the requests the call issued to the wallet
  answers,          \* history: how the wallet settled each of them
  swError,          \* what the call threw
  token,            \* storage of the deployed CustomToken
  tokLast,          \* the last call of CustomToken and how it ended
  nft,              \* storage of the deployed CustomNFT
  nftLast           \* the last call of CustomNFT and how it ended

vars ==
  << routine, contractAddress, pc, isLoading, error, reports, stats, allAudits,
     chainCounts, totalStars, chainIdx, success, retryCount, rpcIdx, result, i,
     totalContractsNum, lastLog, attempts, waits, started, outcome,
     acceptedLen, attemptBase, onlyTimeouts, faulty, abandoned, calls,
     chunks, twin, earlier, watch, filters, shown, clock, ethereum, known,
     walletChain, swPc, swChain, requests, answers, swError, token, tokLast,
     nft, nftLast >>

InitialStats ==
  [ totalAudits |-> 0, averageStars |-> [num |-> 0, den |-> 1],
    chainBreakdown |-> [c \in Chains |-> 0], recentAudits |-> <<>> ]

\* the value 'all' of the chain filter, the other values being the keys of
\* CHAIN_CONFIG, which the model numbers from 1
AllChains == 0

\* useState<FilterState>({...}) of the reports page
DefaultFilters ==
  [search |-> <<>>, chain |-> AllChains, dateRange |-> "all", minStars |-> 0]

\* the view of the reports page before anything is shown
ViewAtRest ==
  /\ filters = DefaultFilters
  /\ shown = <<>>
  /\ clock = 0

(***************************************************************************)
(* The contract builder: the wallet behind switchNetwork and the storage  *)
(* of the two contract templates, before anything is called.              *)
(***************************************************************************)
\* an error as the wallet rejects with it or the code throws it
NoError == [code |-> 0, message |-> "none"]

WalletAtRest ==
  /\ ethereum = TRUE
  /\ known = {}
  /\ walletChain = 0
  /\ swPc = "idle"
  /\ swChain = 0
  /\ requests = <<>>
  /\ answers = <<>>
  /\ swError = NoError

\* address(0)
ZeroAddress == "0x0"

\* the externally owned accounts that call the contracts
Accounts == {"alice", "bob"}

\* an address with code and without onERC721Received
Contracts == {"vault"}

Addresses == {ZeroAddress} \cup Accounts \cup Contracts

\* uint256, narrowed to UintBits bits
MaxUint == 2 ^ UintBits - 1

\* the token ids _nextTokenId can have given out
TokenIds == 0 .. (MaxTokens - 1)

\* the storage at an address that holds no CustomToken yet
NoToken ==
  [ owner |-> ZeroAddress, totalSupply |-> 0,
    balances |-> [a \in Accounts |-> 0],
    allowances |-> [a \in Accounts |-> [b \in Accounts |-> 0]] ]

\* the storage at an address that holds no CustomNFT yet
NoNft ==
  [ owner |-> ZeroAddress, baseURI |-> "", nextTokenId |-> 0,
    owners |-> [t \in TokenIds |-> ZeroAddress],
    balances |-> [a \in Accounts \cup Contracts |-> 0],
    tokenApprovals |-> [t \in TokenIds |-> ZeroAddress],
    operatorApprovals |->
      [a \in Accounts \cup Contracts |-> [b \in Accounts |-> FALSE]],
    tokenURIs |-> [t \in TokenIds |-> ""] ]

NoCall == [op |-> "none", sender |-> ZeroAddress, ok |-> TRUE]

TemplatesAtRest ==
  /\ token = NoToken
  /\ tokLast = NoCall
  /\ nft = NoNft
  /\ nftLast = NoCall

BuilderAtRest == WalletAtRest /\ TemplatesAtRest

\* the parts of the application a run of the fetch routine is followed
\* without
Elsewhere == ViewAtRest /\ BuilderAtRest

Init ==
  /\ routine \in Routines
  /\ contractAddress \in [Chains -> BOOLEAN]
  /\ pc = "idle"
  /\ isLoading = TRUE
  /\ error = "null"
  /\ reports = <<>>
  /\ stats = InitialStats
  /\ allAudits = <<>>
  /\ chainCounts = [c \in Chains |-> 0]
  /\ totalStars = 0
  /\ chainIdx = 0
  /\ success = FALSE
  /\ retryCount = 0
  /\ rpcIdx = 0
  /\ result = NoResult
  /\ i = 0
  /\ totalContractsNum = 0
  /\ lastLog = "none"
  /\ attempts = <<>>
  /\ waits = <<>>
  /\ started = <<>>
  /\ outcome = [c \in Chains |-> "none"]
  /\ acceptedLen = [c \in Chains |-> -1]
  /\ attemptBase = <<>>
  /\ onlyTimeouts = TRUE
  /\ faulty = 0
  /\ abandoned = FALSE
  /\ calls = <<>>
  /\ chunks = <<>>
  /\ twin = <<>>
  /\ earlier = 0
  /\ watch = FALSE
  /\ Elsewhere

(***************************************************************************)
(* Processing of a response: the forEach over one batch.                   *)
(***************************************************************************)
\* the guard on the four other arrays
InRange(res, idx) == \A f \in Fields : idx < LenOf(res, f)

\* An identity filter that compares the addresses as they are written.
MatchesExactly(auditor) == auditor = userAddress

\* the identity filter of fetchUserStats
Matches(auditor) == toLowerCase(auditor) = toLowerCase(userAddress)

\* A record tagged with the first key of CHAIN_CONFIG instead of chainKey.
AuditReportOfFirstChain(c, idx) ==
  LET a == RegistryAt(c, idx + 1) IN
    [ contractHash |-> a.contractHash, stars |-> a.stars, summary |-> a.summary,
      auditor |-> a.auditor, timestamp |-> a.timestamp, chain |-> 1 ]

\* the record pushed by fetchAllChainAudits for index idx (0-based)
AuditReportOf(c, idx) ==
  LET a == RegistryAt(c, idx + 1) IN
    [ contractHash |-> a.contractHash, stars |-> a.stars, summary |-> a.summary,
      auditor |-> a.auditor, timestamp |-> a.timestamp, chain |-> c ]

\* the record pushed by fetchUserStats for index idx (0-based)
UserAuditOf(c, idx) ==
  LET a == RegistryAt(c, idx + 1) IN
    [ contractHash |-> a.contractHash, stars |-> a.stars, summary |-> a.summary,
      timestamp |-> a.timestamp, chain |-> c ]

\* A profile routine that puts each new record at the front of its list.
PushUnshift(rt, c, idx, acc) ==
  IF rt = "reports"
    THEN [acc EXCEPT !.audits = Append(@, AuditReportOf(c, idx))]
    ELSE [acc EXCEPT !.audits = <<UserAuditOf(c, idx)>> \o @,
                     !.counts = [@ EXCEPT ![c] = @ + 1],
                     !.stars = @ + RegistryAt(c, idx + 1).stars]

\* allAudits.push({...}) and, in fetchUserStats, the two counters
Push(rt, c, idx, acc) ==
  IF rt = "reports"
    THEN [acc EXCEPT !.audits = Append(@, AuditReportOf(c, idx))]
    ELSE [acc EXCEPT !.audits = Append(@, UserAuditOf(c, idx)),
                     !.counts = [@ EXCEPT ![c] = @ + 1],
                     !.stars = @ + RegistryAt(c, idx + 1).stars]

\* batch.forEach over the indices idx .. stop-1; stops at a raised error
RECURSIVE forEach(_, _, _, _, _, _)
forEach(rt, res, c, idx, stop, acc) ==
  IF idx >= stop \/ acc.thrown THEN acc
  ELSE IF ~InRange(res, idx) THEN forEach(rt, res, c, idx + 1, stop, acc)
  ELSE IF res.bad = idx + 1 THEN [acc EXCEPT !.thrown = TRUE]
  ELSE IF rt = "profile" /\ ~Matches(RegistryAt(c, idx + 1).auditor)
    THEN forEach(rt, res, c, idx + 1, stop, acc)
  ELSE forEach(rt, res, c, idx + 1, stop, Push(rt, c, idx, acc))

Min(a, b) == IF a <= b THEN a ELSE b

\* A batch that is not cut at batchSize: contractHashes.slice(i).
RunBatchToEnd(rt, res, c, from, acc) == forEach(rt, res, c, from, res.n, acc)

\* contractHashes.slice(i, i + batchSize) and its forEach
RunBatch(rt, res, c, from, acc) ==
  forEach(rt, res, c, from, Min(from + batchSize, res.n), acc)

(***************************************************************************)
(* allAudits.sort((a, b) => b.timestamp - a.timestamp).  The sort of an    *)
(* array is stable: an element comes before another when the comparator    *)
(* puts it first, or calls the two equal and it came first in the array.   *)
(***************************************************************************)
\* A comparator that puts the oldest record first.
CompareAscending(a, b) == a.timestamp - b.timestamp

\* (a, b) => b.timestamp - a.timestamp
Compare(a, b) == b.timestamp - a.timestamp

Before(s, j, k) ==
  \/ Compare(s[j], s[k]) < 0
  \/ Compare(s[j], s[k]) = 0 /\ j < k

\* the place of s[k] in the sorted array
Rank(s, k) == Cardinality({j \in 1..Len(s) : Before(s, j, k)}) + 1

SortByTimestamp(s) ==
  [p \in 1..Len(s) |-> s[CHOOSE k \in 1..Len(s) : Rank(s, k) = p]]

\* .slice(-k): the last k elements.
SliceFromEnd(s, k) == SubSeq(s, Len(s) - Min(k, Len(s)) + 1, Len(s))

\* .slice(0, k)
Slice(s, k) == SubSeq(s, 1, Min(k, Len(s)))

\* A delay computed from the number of the round that failed, counted from 0.
DelayFromZero(r) == baseDelay * (2 ^ (r - 1))

\* baseDelay * Math.pow(2, retryCount)
Delay(r) == baseDelay * (2 ^ r)

pageVars == <<filters, shown, clock>>
walletVars ==
  <<ethereum, known, walletChain, swPc, swChain, requests, answers, swError>>
tokenVars == <<token, tokLast>>
nftVars == <<nft, nftLast>>
builderVars == <<walletVars, tokenVars, nftVars>>
cfgVars == <<routine, contractAddress, watch, pageVars, builderVars>>
reactVars == <<isLoading, error, reports, stats>>
accVars == <<allAudits, chainCounts, totalStars>>
respVars == <<result, i, totalContractsNum>>
roundVars == <<attempts, waits>>
netVars == <<started, outcome>>
callVars == <<abandoned, calls>>
runVars ==
  << routine, contractAddress, watch, pc, reactVars, accVars, chainIdx, success,
     retryCount, rpcIdx, respVars, lastLog, roundVars, netVars, acceptedLen,
     attemptBase, onlyTimeouts, faulty, callVars, chunks, twin, earlier >>

(***************************************************************************)
(* useEffect and the prologue of the routine.                              *)
(***************************************************************************)
Mount ==
  /\ pc = "idle"
  /\ isLoading' = TRUE
  /\ error' = "null"
  /\ allAudits' = <<>>
  /\ chainCounts' = [c \in Chains |-> 0]
  /\ totalStars' = 0
  /\ chainIdx' = 1
  /\ twin' = <<>>
  /\ pc' = "chainLoop"
  /\ UNCHANGED << cfgVars, reports, stats, success, retryCount, rpcIdx, respVars,
                  lastLog, roundVars, netVars, acceptedLen, attemptBase,
                  onlyTimeouts, faulty, callVars, chunks, earlier >>

\* A walk that ends at the first network without a registry address.
ChainLoopBreaks ==
  /\ pc = "chainLoop"
  /\ \/ /\ chainIdx > NumChains
        /\ pc' = "publish"
        /\ UNCHANGED << chainIdx, success, retryCount, netVars, lastLog,
                        roundVars, onlyTimeouts, callVars >>
     \/ /\ chainIdx <= NumChains
        /\ ~contractAddress[chainIdx]
        /\ started' = Append(started, chainIdx)
        /\ outcome' = [outcome EXCEPT ![chainIdx] = "skipped"]
        /\ lastLog' = "skip"
        /\ pc' = "publish"
        /\ UNCHANGED << chainIdx, success, retryCount, roundVars, onlyTimeouts,
                        callVars >>
     \/ /\ chainIdx <= NumChains
        /\ contractAddress[chainIdx]
        /\ started' = Append(started, chainIdx)
        /\ success' = FALSE
        /\ retryCount' = 0
        /\ attempts' = <<>>
        /\ waits' = <<>>
        /\ onlyTimeouts' = TRUE
        /\ abandoned' = FALSE
        /\ calls' = <<>>
        /\ pc' = "while"
        /\ UNCHANGED <<chainIdx, outcome, lastLog>>
  /\ UNCHANGED << cfgVars, reactVars, accVars, rpcIdx, respVars, acceptedLen,
                  attemptBase, faulty, chunks, twin, earlier >>

(***************************************************************************)
(* for (const [chainKey, chainData] of Object.entries(CHAIN_CONFIG)): the  *)
(* walk is over, or the network has no registry address and is skipped, or *)
(* its rounds begin.                                                       *)
(***************************************************************************)
ChainLoop ==
  /\ pc = "chainLoop"
  /\ \/ /\ chainIdx > NumChains
        /\ pc' = "publish"
        /\ UNCHANGED << chainIdx, success, retryCount, netVars, lastLog,
                        roundVars, onlyTimeouts, callVars >>
     \/ /\ chainIdx <= NumChains
        /\ ~contractAddress[chainIdx]
        /\ started' = Append(started, chainIdx)
        /\ outcome' = [outcome EXCEPT ![chainIdx] = "skipped"]
        /\ lastLog' = "skip"
        /\ chainIdx' = chainIdx + 1
        /\ UNCHANGED << pc, success, retryCount, roundVars, onlyTimeouts,
                        callVars >>
     \/ /\ chainIdx <= NumChains
        /\ contractAddress[chainIdx]
        /\ started' = Append(started, chainIdx)
        /\ success' = FALSE
        /\ retryCount' = 0
        /\ attempts' = <<>>
        /\ waits' = <<>>
        /\ onlyTimeouts' = TRUE
        /\ abandoned' = FALSE
        /\ calls' = <<>>
        /\ pc' = "while"
        /\ UNCHANGED <<chainIdx, outcome, lastLog>>
  /\ UNCHANGED << cfgVars, reactVars, accVars, rpcIdx, respVars, acceptedLen,
                  attemptBase, faulty, chunks, twin, earlier >>

\* A loop head that allows one round too many.
WhileHeadOneMore ==
  /\ pc = "while"
  /\ IF ~success /\ retryCount <= maxRetries
       THEN rpcIdx' = 1 /\ pc' = "rpcLoop"
       ELSE rpcIdx' = rpcIdx /\ pc' = "afterWhile"
  /\ UNCHANGED << cfgVars, reactVars, accVars, chainIdx, success, retryCount,
                  respVars, lastLog, roundVars, netVars, acceptedLen,
                  attemptBase, onlyTimeouts, faulty, callVars, chunks, twin,
                  earlier >>

(***************************************************************************)
(* while (!success && retryCount < maxRetries)                             *)
(***************************************************************************)
WhileHead ==
  /\ pc = "while"
  /\ IF ~success /\ retryCount < maxRetries
       THEN rpcIdx' = 1 /\ pc' = "rpcLoop"
       ELSE rpcIdx' = rpcIdx /\ pc' = "afterWhile"
  /\ UNCHANGED << cfgVars, reactVars, accVars, chainIdx, success, retryCount,
                  respVars, lastLog, roundVars, netVars, acceptedLen,
                  attemptBase, onlyTimeouts, faulty, callVars, chunks, twin,
                  earlier >>

\* An endpoint loop that walks the endpoint list from its end.
RpcLoopReversed ==
  /\ pc = "rpcLoop"
  /\ IF rpcIdx <= NumRpc
       THEN /\ attempts' = Append(attempts, <<retryCount + 1, NumRpc + 1 - rpcIdx>>)
            /\ attemptBase' = allAudits
            /\ lastLog' = "attempt"
            /\ calls' = <<"count">>
            /\ pc' = "count"
       ELSE /\ pc' = "roundEnd"
            /\ UNCHANGED <<attempts, attemptBase, lastLog, calls>>
  /\ result' = NoResult
  /\ i' = 0
  /\ totalContractsNum' = 0
  /\ chunks' = <<>>
  /\ UNCHANGED << cfgVars, reactVars, accVars, chainIdx, success, retryCount,
                  rpcIdx, waits, netVars, acceptedLen, onlyTimeouts, faulty,
                  abandoned, twin, earlier >>

(***************************************************************************)
(* for (const rpcUrl of chainData.rpcUrls): the next endpoint attempt is   *)
(* logged and its count query issued, or the round is over.                *)
(***************************************************************************)
RpcLoop ==
  /\ pc = "rpcLoop"
  /\ IF rpcIdx <= NumRpc
       THEN /\ attempts' = Append(attempts, <<retryCount + 1, rpcIdx>>)
            /\ attemptBase' = allAudits
            /\ lastLog' = "attempt"
            /\ calls' = <<"count">>
            /\ pc' = "count"
       ELSE /\ pc' = "roundEnd"
            /\ UNCHANGED <<attempts, attemptBase, lastLog, calls>>
  /\ result' = NoResult
  /\ i' = 0
  /\ totalContractsNum' = 0
  /\ chunks' = <<>>
  /\ UNCHANGED << cfgVars, reactVars, accVars, chainIdx, success, retryCount,
                  rpcIdx, waits, netVars, acceptedLen, onlyTimeouts, faulty,
                  abandoned, twin, earlier >>

\* A catch block that leaves the endpoint loop on an error it does not
\* recognise as transient.
CatchBreaks(e) ==
  /\ lastLog' = IF IsTransient(e) THEN "warn" ELSE "error"
  /\ rpcIdx' = IF IsTransient(e) THEN rpcIdx + 1 ELSE rpcIdx
  /\ pc' = IF IsTransient(e) THEN "rpcLoop" ELSE "roundEnd"
  /\ onlyTimeouts' = (onlyTimeouts /\ IsTimeoutError(e))
  /\ calls' = <<>>

\* A catch block that rethrows what it does not recognise as transient.
CatchRethrows(e) ==
  IF IsTransient(e)
    THEN /\ lastLog' = "warn"
         /\ rpcIdx' = rpcIdx + 1
         /\ pc' = "rpcLoop"
         /\ onlyTimeouts' = (onlyTimeouts /\ IsTimeoutError(e))
         /\ calls' = <<>>
    ELSE /\ pc' = "rejected"
         /\ UNCHANGED <<lastLog, rpcIdx, onlyTimeouts, calls>>

(***************************************************************************)
(* catch (error): whatever the class of the error, the for-of over rpcUrls *)
(* goes on with the next endpoint.                                         *)
(***************************************************************************)
Catch(e) ==
  /\ lastLog' = IF IsTransient(e) THEN "warn" ELSE "error"
  /\ rpcIdx' = rpcIdx + 1
  /\ pc' = "rpcLoop"
  /\ onlyTimeouts' = (onlyTimeouts /\ IsTimeoutError(e))
  /\ calls' = <<>>

\* A count query awaited without the race against the timer.
CountNeverTimesOut == FALSE

\* A count query whose answer is not tested for zero.
CountResolvesUntested(n) ==
  /\ pc = "count"
  /\ totalContractsNum' = n
  /\ pc' = "bulk"
  /\ lastLog' = "total"
  /\ calls' = Append(calls, "bulk")
  /\ UNCHANGED << cfgVars, reactVars, accVars, chainIdx, retryCount, rpcIdx,
                  result, i, roundVars, netVars, attemptBase, onlyTimeouts,
                  faulty, abandoned, chunks, twin, earlier, success,
                  acceptedLen >>

(***************************************************************************)
(* The count query settles: Promise.race of getTotalContracts and the 10 s *)
(* timer.                                                                  *)
(***************************************************************************)
CountResolves(n) ==
  /\ pc = "count"
  /\ totalContractsNum' = n
  /\ IF n = 0
       THEN /\ success' = TRUE
            /\ acceptedLen' = [acceptedLen EXCEPT ![chainIdx] = 0]
            /\ lastLog' = "empty"
            /\ pc' = "roundEnd"
            /\ UNCHANGED calls
       ELSE /\ pc' = "bulk"
            /\ lastLog' = "total"
            /\ calls' = Append(calls, "bulk")
            /\ UNCHANGED <<success, acceptedLen>>
  /\ UNCHANGED << cfgVars, reactVars, accVars, chainIdx, retryCount, rpcIdx,
                  result, i, roundVars, netVars, attemptBase, onlyTimeouts,
                  faulty, abandoned, chunks, twin, earlier >>

CountRejects(e) ==
  /\ pc = "count"
  /\ Catch(e)
  /\ UNCHANGED << cfgVars, reactVars, accVars, chainIdx, success, retryCount,
                  respVars, roundVars, netVars, acceptedLen, attemptBase,
                  faulty, abandoned, chunks, twin, earlier >>

CountTimeout ==
  /\ pc = "count"
  /\ abandoned' = (watch \/ abandoned)
  /\ Catch(CountTimeoutError)
  /\ UNCHANGED << cfgVars, reactVars, accVars, chainIdx, success, retryCount,
                  respVars, roundVars, netVars, acceptedLen, attemptBase,
                  faulty, chunks, twin, earlier >>

(***************************************************************************)
(* The bulk fetch settles: Promise.race of getAllAudits and the 20 s       *)
(* timer, then the check of the response format.                           *)
(***************************************************************************)
BulkResolves(res) ==
  /\ pc = "bulk"
  /\ result' = res
  /\ i' = 0
  /\ IF ~IsArrays(res)
       THEN /\ Catch(FormatError)
            /\ UNCHANGED faulty
       ELSE /\ IsFaulty(res) => faulty < MaxFaulty
            /\ faulty' = IF IsFaulty(res) THEN faulty + 1 ELSE faulty
            /\ pc' = "batchLoop"
            /\ UNCHANGED <<lastLog, rpcIdx, onlyTimeouts, calls>>
  /\ UNCHANGED << cfgVars, reactVars, accVars, chainIdx, success, retryCount,
                  totalContractsNum, roundVars, netVars, acceptedLen,
                  attemptBase, abandoned, chunks, twin, earlier >>

BulkRejects(e) ==
  /\ pc = "bulk"
  /\ Catch(e)
  /\ UNCHANGED << cfgVars, reactVars, accVars, chainIdx, success, retryCount,
                  respVars, roundVars, netVars, acceptedLen, attemptBase,
                  faulty, abandoned, chunks, twin, earlier >>

BulkTimeout ==
  /\ pc = "bulk"
  /\ abandoned' = (watch \/ abandoned)
  /\ Catch(BulkTimeoutError)
  /\ UNCHANGED << cfgVars, reactVars, accVars, chainIdx, success, retryCount,
                  respVars, roundVars, netVars, acceptedLen, attemptBase,
                  faulty, chunks, twin, earlier >>

(***************************************************************************)
(* for (let i = 0; i < contractHashes.length; i += batchSize): one batch   *)
(* is pushed, then the routine pauses; an error raised by the forEach      *)
(* leaves what was pushed before it.                                       *)
(***************************************************************************)
ProcessBatch ==
  /\ pc = "batchLoop"
  /\ i < result.n
  /\ LET acc == RunBatch(routine, result, chainIdx, i,
                         [ audits |-> allAudits, counts |-> chainCounts,
                           stars |-> totalStars, thrown |-> FALSE ])
     IN /\ allAudits' = acc.audits
        /\ chainCounts' = acc.counts
        /\ totalStars' = acc.stars
        /\ IF acc.thrown
             THEN /\ Catch(ProcessingError)
                  /\ chunks' = <<>>
             ELSE /\ pc' = "pause"
                  /\ chunks' = Append(chunks, [ from |-> i,
                                                size |-> Min(i + batchSize, result.n) - i,
                                                paused |-> FALSE ])
                  /\ UNCHANGED <<lastLog, rpcIdx, onlyTimeouts, calls>>
  /\ twin' = IF watch
               THEN RunBatch("reports", result, chainIdx, i,
                             [ audits |-> twin, counts |-> chainCounts,
                               stars |-> totalStars, thrown |-> FALSE ]).audits
               ELSE twin
  /\ UNCHANGED << cfgVars, reactVars, chainIdx, success, retryCount, respVars,
                  roundVars, netVars, acceptedLen, attemptBase, faulty,
                  abandoned, earlier >>

\* await new Promise(resolve => setTimeout(resolve, 10)), then i += batchSize
PauseDone ==
  /\ pc = "pause"
  /\ i' = i + batchSize
  /\ chunks' = [chunks EXCEPT ![Len(chunks)].paused = TRUE]
  /\ pc' = "batchLoop"
  /\ UNCHANGED << cfgVars, reactVars, accVars, chainIdx, success, retryCount,
                  rpcIdx, result, totalContractsNum, lastLog, roundVars, netVars,
                  acceptedLen, attemptBase, onlyTimeouts, faulty, callVars, twin,
                  earlier >>

\* A success that is not followed by a break: the next endpoint is tried.
BatchesDoneNoBreak ==
  /\ pc = "batchLoop"
  /\ i >= result.n
  /\ success' = TRUE
  /\ acceptedLen' = [acceptedLen EXCEPT ![chainIdx] = result.n]
  /\ lastLog' = "processed"
  /\ result' = NoResult
  /\ i' = 0
  /\ totalContractsNum' = 0
  /\ rpcIdx' = rpcIdx + 1
  /\ pc' = "rpcLoop"
  /\ UNCHANGED << cfgVars, reactVars, accVars, chainIdx, retryCount,
                  roundVars, netVars, attemptBase, onlyTimeouts, faulty, callVars,
                  chunks, twin, earlier >>

\* the batches are exhausted: success = true; break
BatchesDone ==
  /\ pc = "batchLoop"
  /\ i >= result.n
  /\ success' = TRUE
  /\ acceptedLen' = [acceptedLen EXCEPT ![chainIdx] = result.n]
  /\ lastLog' = "processed"
  /\ result' = NoResult
  /\ i' = 0
  /\ totalContractsNum' = 0
  /\ pc' = "roundEnd"
  /\ UNCHANGED << cfgVars, reactVars, accVars, chainIdx, retryCount, rpcIdx,
                  roundVars, netVars, attemptBase, onlyTimeouts, faulty, callVars,
                  chunks, twin, earlier >>

\* A round end that tests the number of rounds before it counts the one
\* that failed.
RoundEndCountsAfterWait ==
  /\ pc = "roundEnd"
  /\ IF success
       THEN /\ pc' = "while"
            /\ UNCHANGED <<retryCount, waits, lastLog>>
       ELSE /\ retryCount' = retryCount + 1
            /\ IF retryCount < maxRetries
                 THEN /\ waits' = Append(waits, [ delay |-> Delay(retryCount'),
                                                   at |-> Len(attempts) ])
                      /\ lastLog' = "retry"
                      /\ pc' = "backoff"
                 ELSE /\ pc' = "while"
                      /\ UNCHANGED <<waits, lastLog>>
  /\ UNCHANGED << cfgVars, reactVars, accVars, chainIdx, success, rpcIdx,
                  respVars, attempts, netVars, acceptedLen, attemptBase,
                  onlyTimeouts, faulty, callVars, chunks, twin, earlier >>

\* A round end that also waits after the last round.
RoundEndAlwaysWaits ==
  /\ pc = "roundEnd"
  /\ IF success
       THEN /\ pc' = "while"
            /\ UNCHANGED <<retryCount, waits, lastLog>>
       ELSE /\ retryCount' = retryCount + 1
            /\ waits' = Append(waits, [ delay |-> Delay(retryCount'),
                                         at |-> Len(attempts) ])
            /\ lastLog' = "retry"
            /\ pc' = "backoff"
  /\ UNCHANGED << cfgVars, reactVars, accVars, chainIdx, success, rpcIdx,
                  respVars, attempts, netVars, acceptedLen, attemptBase,
                  onlyTimeouts, faulty, callVars, chunks, twin, earlier >>

(***************************************************************************)
(* if (!success) { retryCount++; if (retryCount < maxRetries) wait }       *)
(***************************************************************************)
RoundEnd ==
  /\ pc = "roundEnd"
  /\ IF success
       THEN /\ pc' = "while"
            /\ UNCHANGED <<retryCount, waits, lastLog>>
       ELSE /\ retryCount' = retryCount + 1
            /\ IF retryCount' < maxRetries
                 THEN /\ waits' = Append(waits, [ delay |-> Delay(retryCount'),
                                                   at |-> Len(attempts) ])
                      /\ lastLog' = "retry"
                      /\ pc' = "backoff"
                 ELSE /\ pc' = "while"
                      /\ UNCHANGED <<waits, lastLog>>
  /\ UNCHANGED << cfgVars, reactVars, accVars, chainIdx, success, rpcIdx,
                  respVars, attempts, netVars, acceptedLen, attemptBase,
                  onlyTimeouts, faulty, callVars, chunks, twin, earlier >>

\* the backoff timer fires
BackoffDone ==
  /\ pc = "backoff"
  /\ pc' = "while"
  /\ UNCHANGED << cfgVars, reactVars, accVars, chainIdx, success, retryCount,
                  rpcIdx, respVars, lastLog, roundVars, netVars, acceptedLen,
                  attemptBase, onlyTimeouts, faulty, callVars, chunks, twin,
                  earlier >>

\* An end of the rounds that logs the failure without testing success.
AfterWhileAlwaysLogs ==
  /\ pc = "afterWhile"
  /\ outcome' = [outcome EXCEPT ![chainIdx] = IF success THEN "success" ELSE "exhausted"]
  /\ lastLog' = "failed"
  /\ attemptBase' = <<>>
  /\ calls' = <<>>
  /\ chunks' = <<>>
  /\ chainIdx' = chainIdx + 1
  /\ pc' = "chainLoop"
  /\ UNCHANGED << cfgVars, reactVars, accVars, success, retryCount, rpcIdx,
                  respVars, roundVars, started, acceptedLen, onlyTimeouts,
                  faulty, abandoned, twin, earlier >>

(***************************************************************************)
(* if (!success) console.error(...): the network is done, the for-of over  *)
(* CHAIN_CONFIG goes on.                                                   *)
(***************************************************************************)
AfterWhile ==
  /\ pc = "afterWhile"
  /\ outcome' = [outcome EXCEPT ![chainIdx] = IF success THEN "success" ELSE "exhausted"]
  /\ lastLog' = IF success THEN lastLog ELSE "failed"
  /\ attemptBase' = <<>>
  /\ calls' = <<>>
  /\ chunks' = <<>>
  /\ chainIdx' = chainIdx + 1
  /\ pc' = "chainLoop"
  /\ UNCHANGED << cfgVars, reactVars, accVars, success, retryCount, rpcIdx,
                  respVars, roundVars, started, acceptedLen, onlyTimeouts,
                  faulty, abandoned, twin, earlier >>

\* the records of network c in a list
Contribution(c, list) == SelectSeq(list, LAMBDA r : r.chain = c)

\* all the records of a response of n audits of network c, after the
\* identity filter of the profile routine
RECURSIVE ResponseRecords(_, _)
ResponseRecords(c, n) ==
  IF n = 0 THEN <<>>
  ELSE IF routine = "reports"
    THEN Append(ResponseRecords(c, n - 1), AuditReportOf(c, n - 1))
  ELSE IF Matches(RegistryAt(c, n).auditor)
    THEN Append(ResponseRecords(c, n - 1), UserAuditOf(c, n - 1))
  ELSE ResponseRecords(c, n - 1)

\* Statistics whose average is the quotient whatever the number of records.
StatsOfUnguarded(sorted, counts, stars) ==
  [ totalAudits |-> Len(sorted),
    averageStars |-> [num |-> stars, den |-> Len(sorted)],
    chainBreakdown |-> counts,
    recentAudits |-> Slice(sorted, recentCount) ]

\* the object handed to setStats, from the sorted records and the counters
StatsOf(sorted, counts, stars) ==
  [ totalAudits |-> Len(sorted),
    averageStars |-> IF Len(sorted) > 0
                       THEN [num |-> stars, den |-> Len(sorted)]
                       ELSE [num |-> 0, den |-> 1],
    chainBreakdown |-> counts,
    recentAudits |-> Slice(sorted, recentCount) ]

(***************************************************************************)
(* The epilogue: sort, publish, clear the loading flag.                    *)
(***************************************************************************)
Publish ==
  /\ pc = "publish"
  /\ allAudits' = SortByTimestamp(allAudits)
  /\ twin' = SortByTimestamp(twin)
  /\ IF routine = "reports"
       THEN /\ reports' = allAudits'
            /\ UNCHANGED stats
       ELSE /\ stats' = StatsOf(allAudits', chainCounts, totalStars)
            /\ UNCHANGED reports
  /\ isLoading' = FALSE
  /\ pc' = "done"
  /\ UNCHANGED << cfgVars, error, chainCounts, totalStars, chainIdx, success,
                  retryCount, rpcIdx, respVars, lastLog, roundVars, netVars,
                  acceptedLen, attemptBase, onlyTimeouts, faulty, callVars,
                  chunks, earlier >>

\* A late answer that is taken for the answer of the call: with a count of
\* zero it marks the network as done.
LateSettleTakesAnswer ==
  /\ abandoned
  /\ abandoned' \in BOOLEAN
  /\ success' = TRUE
  /\ UNCHANGED << cfgVars, reactVars, accVars, pc, chainIdx, retryCount,
                  rpcIdx, respVars, lastLog, roundVars, netVars, acceptedLen,
                  attemptBase, onlyTimeouts, faulty, calls, chunks, twin,
                  earlier >>

(***************************************************************************)
(* A call that lost its race against the timer is not cancelled: it stays  *)
(* outstanding and may settle at any later time.  Promise.race has settled *)
(* already, so nothing of the routine runs when it does.                   *)
(***************************************************************************)
LateSettle ==
  /\ abandoned
  /\ abandoned' \in BOOLEAN
  /\ UNCHANGED << cfgVars, reactVars, accVars, pc, chainIdx, success, retryCount,
                  rpcIdx, respVars, lastLog, roundVars, netVars, acceptedLen,
                  attemptBase, onlyTimeouts, faulty, calls, chunks, twin,
                  earlier >>

\* what an endpoint may answer to the count query: the registry is seen
\* empty, or with its RegSize audits
CountAnswers == {0, RegSize}

\* what an endpoint may answer to the bulk fetch of totalContractsNum audits
BulkAnswers == {InvalidResult} \cup Results(totalContractsNum)

\* the steps the event loop and its timers take by themselves
RunStep ==
  \/ Mount
  \/ ChainLoop
  \/ WhileHead
  \/ RpcLoop
  \/ CountTimeout
  \/ BulkTimeout
  \/ ProcessBatch
  \/ PauseDone
  \/ BatchesDone
  \/ RoundEnd
  \/ BackoffDone
  \/ AfterWhile
  \/ Publish

\* the steps that need an endpoint to answer
EndpointStep ==
  \/ \E n \in CountAnswers : CountResolves(n)
  \/ \E e \in RpcErrors : CountRejects(e)
  \/ \E res \in BulkAnswers : BulkResolves(res)
  \/ \E e \in RpcErrors : BulkRejects(e)

Next == RunStep \/ EndpointStep

Spec == Init /\ [][Next]_vars

\* timers fire and the event loop runs; no endpoint is obliged to answer
FairSpec == Spec /\ WF_vars(RunStep)

(***************************************************************************)
(* The same run with the outstanding calls and the twin list recorded.     *)
(***************************************************************************)
WatchInit ==
  /\ routine \in Routines
  /\ contractAddress \in [Chains -> BOOLEAN]
  /\ pc = "idle"
  /\ isLoading = TRUE
  /\ error = "null"
  /\ reports = <<>>
  /\ stats = InitialStats
  /\ allAudits = <<>>
  /\ chainCounts = [c \in Chains |-> 0]
  /\ totalStars = 0
  /\ chainIdx = 0
  /\ success = FALSE
  /\ retryCount = 0
  /\ rpcIdx = 0
  /\ result = NoResult
  /\ i = 0
  /\ totalContractsNum = 0
  /\ lastLog = "none"
  /\ attempts = <<>>
  /\ waits = <<>>
  /\ started = <<>>
  /\ outcome = [c \in Chains |-> "none"]
  /\ acceptedLen = [c \in Chains |-> -1]
  /\ attemptBase = <<>>
  /\ onlyTimeouts = TRUE
  /\ faulty = 0
  /\ abandoned = FALSE
  /\ calls = <<>>
  /\ chunks = <<>>
  /\ twin = <<>>
  /\ earlier = 0
  /\ watch = TRUE
  /\ Elsewhere

WatchNext == RunStep \/ EndpointStep \/ LateSettle

WatchSpec == WatchInit /\ [][WatchNext]_vars

(***************************************************************************)
(* The profile page with its Refresh button.  A click calls fetchUserStats *)
(* again, whether or not a run is in flight; so does the effect when the   *)
(* wallet address changes.  The run in focus is the one started last; the  *)
(* runs started before it go on by themselves and are counted in           *)
(* `earlier`.  Each of them ends with its own epilogue.                    *)
(***************************************************************************)
\* onClick={() => fetchUserStats(walletAddress)}: the prologue of a new run,
\* with locals and histories of its own
Refresh ==
  /\ routine = "profile"
  /\ pc # "idle"
  /\ earlier' = IF pc = "done" THEN earlier ELSE earlier + 1
  /\ earlier' <= MaxEarlier
  /\ isLoading' = TRUE
  /\ error' = "null"
  /\ allAudits' = <<>>
  /\ chainCounts' = [c \in Chains |-> 0]
  /\ totalStars' = 0
  /\ chainIdx' = 1
  /\ pc' = "chainLoop"
  /\ success' = FALSE
  /\ retryCount' = 0
  /\ rpcIdx' = 0
  /\ result' = NoResult
  /\ i' = 0
  /\ totalContractsNum' = 0
  /\ lastLog' = "none"
  /\ attempts' = <<>>
  /\ waits' = <<>>
  /\ started' = <<>>
  /\ outcome' = [c \in Chains |-> "none"]
  /\ acceptedLen' = [c \in Chains |-> -1]
  /\ attemptBase' = <<>>
  /\ onlyTimeouts' = TRUE
  /\ faulty' = 0
  /\ abandoned' = FALSE
  /\ calls' = <<>>
  /\ chunks' = <<>>
  /\ twin' = <<>>
  /\ UNCHANGED <<cfgVars, reports, stats>>

\* the records a run accumulates over the networks 1..c when the networks in
\* S answer with their whole registry and the others give nothing
RECURSIVE RunRecords(_, _)
RunRecords(S, c) ==
  IF c = 0 THEN <<>>
  ELSE RunRecords(S, c - 1)
         \o (IF c \in S THEN ResponseRecords(c, RegSize) ELSE <<>>)

RECURSIVE SumStars(_)
SumStars(list) == IF list = <<>> THEN 0 ELSE Head(list).stars + SumStars(Tail(list))

\* an earlier run reaches its epilogue: setStats(...), setIsLoading(false)
EarlierRunReturns ==
  /\ earlier > 0
  /\ \E S \in SUBSET {c \in Chains : contractAddress[c]} :
       LET list == SortByTimestamp(RunRecords(S, NumChains))
       IN stats' = StatsOf(list, [c \in Chains |-> Len(Contribution(c, list))],
                           SumStars(list))
  /\ isLoading' = FALSE
  /\ earlier' = earlier - 1
  /\ UNCHANGED << cfgVars, error, reports, accVars, pc, chainIdx, success,
                  retryCount, rpcIdx, respVars, lastLog, roundVars, netVars,
                  acceptedLen, attemptBase, onlyTimeouts, faulty, callVars,
                  chunks, twin >>

PageInit == Init /\ routine = "profile"

PageNext == RunStep \/ EndpointStep \/ Refresh \/ EarlierRunReturns

PageSpec == PageInit /\ [][PageNext]_vars

(***************************************************************************)
(* The tail of a run over a large registry: the earlier networks have no   *)
(* registry address and were skipped, and the first endpoint of the last   *)
(* network has answered the count query with n and the bulk fetch with n   *)
(* audits, n ranging over sizes around the multiples of batchSize.  From   *)
(* there the run processes the batches and publishes.                      *)
(***************************************************************************)
TailSizes ==
  {b * batchSize + d : b \in 0..MaxBatches, d \in 0..MaxExtra} \ {0}

TailInit ==
  /\ routine \in Routines
  /\ contractAddress = [c \in Chains |-> c = NumChains]
  /\ pc = "batchLoop"
  /\ isLoading = TRUE
  /\ error = "null"
  /\ reports = <<>>
  /\ stats = InitialStats
  /\ allAudits = <<>>
  /\ chainCounts = [c \in Chains |-> 0]
  /\ totalStars = 0
  /\ chainIdx = NumChains
  /\ success = FALSE
  /\ retryCount = 0
  /\ rpcIdx = 1
  /\ \E n \in TailSizes : result = WellFormed(n) /\ totalContractsNum = n
  /\ i = 0
  /\ lastLog = "total"
  /\ attempts = << <<1, 1>> >>
  /\ waits = <<>>
  /\ started = [k \in 1..NumChains |-> k]
  /\ outcome = [c \in Chains |-> IF c < NumChains THEN "skipped" ELSE "none"]
  /\ acceptedLen = [c \in Chains |-> -1]
  /\ attemptBase = <<>>
  /\ onlyTimeouts = TRUE
  /\ faulty = 0
  /\ abandoned = FALSE
  /\ calls = <<"count", "bulk">>
  /\ chunks = <<>>
  /\ twin = <<>>
  /\ earlier = 0
  /\ watch = FALSE
  /\ Elsewhere

TailNext ==
  \/ ProcessBatch
  \/ PauseDone
  \/ BatchesDone
  \/ RoundEnd
  \/ WhileHead
  \/ AfterWhile
  \/ ChainLoop
  \/ Publish

TailSpec == TailInit /\ [][TailNext]_vars

(***************************************************************************)
(* The filters of the reports page.  getFilteredReports is called by every *)
(* render of the page; a change of a filter is a setFilters followed by    *)
(* the render it causes, in the same second as the render before.  The     *)
(* view is followed from the moment the run has published its list;        *)
(* `clock` is what Date.now() / 1000 gave the last render.                 *)
(***************************************************************************)
\* String.prototype.includes on two strings
includes(s, sub) ==
  \E o \in 0..(Len(s) - Len(sub)) : \A k \in 1..Len(sub) : s[o + k] = sub[k]

ranges == [day |-> 86400, week |-> 604800, month |-> 2592000]

\* A search that lowers the case of the report's fields only.
KeepsNeedleCased(report, f, now) ==
  /\ ~ ( /\ f.search # <<>>
         /\ ~includes(toLowerCase(report.contractHash), f.search)
         /\ ~includes(toLowerCase(report.auditor), f.search) )
  /\ ~ (f.chain # AllChains /\ report.chain # f.chain)
  /\ ~ (f.minStars > 0 /\ report.stars < f.minStars)
  /\ ~ (f.dateRange # "all" /\ now - report.timestamp > ranges[f.dateRange])

\* the callback of reports.filter: false at the first criterion that fails
Keeps(report, f, now) ==
  /\ ~ ( /\ f.search # <<>>
         /\ ~includes(toLowerCase(report.contractHash), toLowerCase(f.search))
         /\ ~includes(toLowerCase(report.auditor), toLowerCase(f.search)) )
  /\ ~ (f.chain # AllChains /\ report.chain # f.chain)
  /\ ~ (f.minStars > 0 /\ report.stars < f.minStars)
  /\ ~ (f.dateRange # "all" /\ now - report.timestamp > ranges[f.dateRange])

getFilteredReports(list, f, now) == SelectSeq(list, LAMBDA r : Keeps(r, f, now))

\* what the user can type into the search box or pick in the selects
Searches ==
  { <<>>, <<"a", "1">>, <<"x", "B">>, <<"C", "D">>, <<"z">> }

ChainOptions == {AllChains} \cup Chains

DateOptions == {"all"} \cup DOMAIN ranges

StarOptions == 0..5

\* the readings of the clock: just after the newest audit, and at the edge
\* of each range
Clock ==
  {1700000000 + 3} \cup {1700000000 + 2 + ranges[d] : d \in DOMAIN ranges}

\* the render of the page with the filters f when the clock reads t
Rerender(f, t) ==
  /\ clock' = t
  /\ shown' = getFilteredReports(reports, f, t)

SetSearch(s) ==
  /\ filters' = [filters EXCEPT !.search = s]
  /\ Rerender(filters', clock)
  /\ UNCHANGED <<runVars, builderVars>>

SetChain(c) ==
  /\ filters' = [filters EXCEPT !.chain = c]
  /\ Rerender(filters', clock)
  /\ UNCHANGED <<runVars, builderVars>>

SetDateRange(d) ==
  /\ filters' = [filters EXCEPT !.dateRange = d]
  /\ Rerender(filters', clock)
  /\ UNCHANGED <<runVars, builderVars>>

SetMinStars(m) ==
  /\ filters' = [filters EXCEPT !.minStars = m]
  /\ Rerender(filters', clock)
  /\ UNCHANGED <<runVars, builderVars>>

\* a later render for another reason: the filter panel is opened, a report
\* selected
Render ==
  /\ \E t \in Clock : Rerender(filters, t)
  /\ UNCHANGED <<filters, runVars, builderVars>>

\* the lists a run of fetchAllChainAudits can have published: of each
\* network the first audits of its registry
FetchedLists ==
  { SortByTimestamp(RunRecords(S, NumChains)) : S \in SUBSET Chains }

FilterInit ==
  /\ routine = "reports"
  /\ contractAddress = [c \in Chains |-> TRUE]
  /\ pc = "done"
  /\ isLoading = FALSE
  /\ error = "null"
  /\ reports \in FetchedLists
  /\ stats = InitialStats
  /\ allAudits = reports
  /\ chainCounts = [c \in Chains |-> 0]
  /\ totalStars = 0
  /\ chainIdx = NumChains + 1
  /\ success = TRUE
  /\ retryCount = 0
  /\ rpcIdx = 1
  /\ result = NoResult
  /\ i = 0
  /\ totalContractsNum = 0
  /\ lastLog = IF Contribution(NumChains, reports) = <<>> THEN "empty" ELSE "processed"
  /\ attempts = << <<1, 1>> >>
  /\ waits = <<>>
  /\ started = [k \in 1..NumChains |-> k]
  /\ outcome = [c \in Chains |-> "success"]
  /\ acceptedLen = [c \in Chains |-> Len(Contribution(c, reports))]
  /\ attemptBase = <<>>
  /\ onlyTimeouts = TRUE
  /\ faulty = 0
  /\ abandoned = FALSE
  /\ calls = <<>>
  /\ chunks = <<>>
  /\ twin = <<>>
  /\ earlier = 0
  /\ watch = FALSE
  /\ filters = DefaultFilters
  /\ \E t \in Clock : clock = t /\ shown = getFilteredReports(reports, filters, t)
  /\ BuilderAtRest

FilterNext ==
  \/ \E s \in Searches : SetSearch(s)
  \/ \E c \in ChainOptions : SetChain(c)
  \/ \E d \in DateOptions : SetDateRange(d)
  \/ \E m \in StarOptions : SetMinStars(m)
  \/ Render

FilterSpec == FilterInit /\ [][FilterNext]_vars

(***************************************************************************)
(* switchNetwork and the wallet it asks.                                   *)
(***************************************************************************)
\* the pages' fetch routine before it is mounted, every network having a
\* registry address
RunAtRest ==
  /\ routine = "reports"
  /\ contractAddress = [c \in Chains |-> TRUE]
  /\ pc = "idle"
  /\ isLoading = TRUE
  /\ error = "null"
  /\ reports = <<>>
  /\ stats = InitialStats
  /\ allAudits = <<>>
  /\ chainCounts = [c \in Chains |-> 0]
  /\ totalStars = 0
  /\ chainIdx = 0
  /\ success = FALSE
  /\ retryCount = 0
  /\ rpcIdx = 0
  /\ result = NoResult
  /\ i = 0
  /\ totalContractsNum = 0
  /\ lastLog = "none"
  /\ attempts = <<>>
  /\ waits = <<>>
  /\ started = <<>>
  /\ outcome = [c \in Chains |-> "none"]
  /\ acceptedLen = [c \in Chains |-> -1]
  /\ attemptBase = <<>>
  /\ onlyTimeouts = TRUE
  /\ faulty = 0
  /\ abandoned = FALSE
  /\ calls = <<>>
  /\ chunks = <<>>
  /\ twin = <<>>
  /\ earlier = 0
  /\ watch = FALSE

\* the code a wallet rejects a switch with when it has not been given the
\* chain
UnrecognizedChain == 4902

\* new Error('Please install MetaMask')
InstallError == [code |-> 0, message |-> "Please install MetaMask"]

\* what a wallet rejects a request with: the chain is not known to it, the
\* user refused, the wallet failed
WalletErrors ==
  { [code |-> UnrecognizedChain, message |-> "Unrecognized chain ID"],
    [code |-> 4001, message |-> "User rejected the request"],
    [code |-> -32603, message |-> "Internal JSON-RPC error"] }

\* the settlement of a request the wallet granted
Granted == [code |-> 0, message |-> "granted"]

SwitchRequest(chainKey) ==
  [method |-> "wallet_switchEthereumChain", chainId |-> chainKey]

AddRequest(chainKey) ==
  [method |-> "wallet_addEthereumChain", chainId |-> chainKey]

\* what a call of switchNetwork leaves alone
notWallet == <<runVars, pageVars, tokenVars, nftVars>>

\* switchNetwork(chainKey) up to its first await
CallSwitchNetwork(chainKey) ==
  /\ swPc \in {"idle", "returned", "thrown"}
  /\ swChain' = chainKey
  /\ answers' = <<>>
  /\ IF ~ethereum
     THEN /\ requests' = <<>>
          /\ swError' = InstallError
          /\ swPc' = "thrown"
     ELSE /\ requests' = <<SwitchRequest(chainKey)>>
          /\ swError' = NoError
          /\ swPc' = "switching"
  /\ UNCHANGED <<ethereum, known, walletChain, notWallet>>

\* the wallet grants the switch: the chain is one it has
SwitchResolves ==
  /\ swPc = "switching"
  /\ swChain \in known
  /\ answers' = Append(answers, Granted)
  /\ walletChain' = swChain
  /\ swPc' = "returned"
  /\ UNCHANGED <<ethereum, known, swChain, requests, swError, notWallet>>

\* A catch that answers every failure of the switch by adding the chain.
CatchAddsAlways(switchError) ==
  /\ requests' = Append(requests, AddRequest(swChain))
  /\ swPc' = "adding"
  /\ UNCHANGED swError

\* catch (error) of the switch request
CatchSwitchError(switchError) ==
  IF switchError.code = UnrecognizedChain
  THEN /\ requests' = Append(requests, AddRequest(swChain))
       /\ swPc' = "adding"
       /\ UNCHANGED swError
  ELSE /\ swError' = switchError
       /\ swPc' = "thrown"
       /\ UNCHANGED requests

\* the wallet rejects the switch
SwitchRejects(e) ==
  /\ swPc = "switching"
  /\ e.code = UnrecognizedChain => swChain \notin known
  /\ answers' = Append(answers, e)
  /\ CatchSwitchError(e)
  /\ UNCHANGED <<ethereum, known, walletChain, swChain, notWallet>>

\* the wallet takes the chain; it moves to it when the user agrees to that
\* as well
AddResolves ==
  /\ swPc = "adding"
  /\ answers' = Append(answers, Granted)
  /\ known' = known \cup {swChain}
  /\ walletChain' \in {walletChain, swChain}
  /\ swPc' = "returned"
  /\ UNCHANGED <<ethereum, swChain, requests, swError, notWallet>>

\* catch (addError)
AddRejects(addError) ==
  /\ swPc = "adding"
  /\ answers' = Append(answers, addError)
  /\ swError' = addError
  /\ swPc' = "thrown"
  /\ UNCHANGED <<ethereum, known, walletChain, swChain, requests, notWallet>>

SwitchInit ==
  /\ RunAtRest
  /\ ViewAtRest
  /\ TemplatesAtRest
  /\ ethereum \in BOOLEAN
  /\ known \in SUBSET Chains
  /\ walletChain \in {0} \cup known
  /\ swPc = "idle"
  /\ swChain = 0
  /\ requests = <<>>
  /\ answers = <<>>
  /\ swError = NoError

SwitchNext ==
  \/ \E chainKey \in Chains : CallSwitchNetwork(chainKey)
  \/ SwitchResolves
  \/ \E e \in WalletErrors : SwitchRejects(e)
  \/ AddResolves
  \/ \E e \in WalletErrors : AddRejects(e)

SwitchSpec == SwitchInit /\ [][SwitchNext]_vars

(***************************************************************************)
(* ERC20_BASE: contract CustomToken.  A function of the contract is an    *)
(* operator from the storage and the call to how the call ended and the   *)
(* storage as the call left it; the chain keeps that storage when the     *)
(* call returned and the storage of before when it reverted.              *)
(***************************************************************************)
Returned(st) == [ok |-> TRUE, st |-> st]

Reverted(st) == [ok |-> FALSE, st |-> st]

\* arithmetic inside unchecked { }
Wrap(x) == x % (2 ^ UintBits)

\* the recipients and spenders a call can name
Named == {ZeroAddress} \cup Accounts

\* the amounts a call can name
Amounts == 0 .. MaxUint

\* the spenders an account names when it sets an allowance: the zero
\* address and the other accounts
Spenders(sender) == Named \ {sender}


\* A mint that leaves totalSupply as it was.
MintWithoutSupply(st, to, amount) ==
  IF to = ZeroAddress THEN Reverted(st)
  ELSE IF st.balances[to] + amount > MaxUint THEN Reverted(st)
  ELSE Returned([st EXCEPT !.balances[to] = @ + amount])

\* function _mint(address to, uint256 amount) internal virtual
Mint(st, to, amount) ==
  IF to = ZeroAddress THEN Reverted(st)
  ELSE IF st.totalSupply + amount > MaxUint THEN Reverted(st)
  ELSE LET s1 == [st EXCEPT !.totalSupply = @ + amount]
       IN  IF s1.balances[to] + amount > MaxUint THEN Reverted(s1)
           ELSE Returned([s1 EXCEPT !.balances[to] = @ + amount])

\* constructor(name_, symbol_, initialSupply), minted being
\* initialSupply * 10**decimals where that product fits uint256
constructor(st, sender, minted) ==
  Mint([st EXCEPT !.owner = sender], sender, minted)

transfer(st, sender, to, amount) ==
  IF to = ZeroAddress THEN Reverted(st)
  ELSE LET senderBalance == st.balances[sender]
       IN  IF ~(senderBalance >= amount) THEN Reverted(st)
           ELSE LET s1 == [st EXCEPT !.balances[sender] =
                                        Wrap(senderBalance - amount)]
                IN  IF s1.balances[to] + amount > MaxUint THEN Reverted(s1)
                    ELSE Returned([s1 EXCEPT !.balances[to] = @ + amount])

approve(st, sender, spender, amount) ==
  IF spender = ZeroAddress THEN Reverted(st)
  ELSE Returned([st EXCEPT !.allowances[sender][spender] = amount])

increaseAllowance(st, sender, spender, addedValue) ==
  IF spender = ZeroAddress THEN Reverted(st)
  ELSE IF st.allowances[sender][spender] + addedValue > MaxUint
       THEN Reverted(st)
       ELSE Returned([st EXCEPT !.allowances[sender][spender] = @ + addedValue])

decreaseAllowance(st, sender, spender, subtractedValue) ==
  IF spender = ZeroAddress THEN Reverted(st)
  ELSE LET currentAllowance == st.allowances[sender][spender]
       IN  IF ~(currentAllowance >= subtractedValue) THEN Reverted(st)
           ELSE Returned([st EXCEPT !.allowances[sender][spender] =
                                      Wrap(currentAllowance - subtractedValue)])

transferFrom(st, sender, from, to, amount) ==
  IF to = ZeroAddress THEN Reverted(st)
  ELSE IF from = ZeroAddress THEN Reverted(st)
  ELSE LET currentAllowance == st.allowances[from][sender]
           fromBalance == st.balances[from]
       IN  IF ~(currentAllowance >= amount) THEN Reverted(st)
           ELSE IF ~(fromBalance >= amount) THEN Reverted(st)
           ELSE LET s1 == [st EXCEPT
                             !.balances[from] = Wrap(fromBalance - amount),
                             !.allowances[from][sender] =
                               Wrap(currentAllowance - amount)]
                IN  IF s1.balances[to] + amount > MaxUint THEN Reverted(s1)
                    ELSE Returned([s1 EXCEPT !.balances[to] = @ + amount])

\* A mint open to every caller.
MintByAnyone(st, sender, to, amount) == Mint(st, to, amount)

\* function mint(address to, uint256 amount) public onlyOwner
mint(st, sender, to, amount) ==
  IF ~(sender = st.owner) THEN Reverted(st)
  ELSE Mint(st, to, amount)

burn(st, sender, amount) ==
  LET accountBalance == st.balances[sender]
  IN  IF ~(accountBalance >= amount) THEN Reverted(st)
      ELSE Returned([st EXCEPT
                       !.balances[sender] = Wrap(accountBalance - amount),
                       !.totalSupply = Wrap(@ - amount)])

transferOwnership(st, sender, newOwner) ==
  IF ~(sender = st.owner) THEN Reverted(st)
  ELSE IF newOwner = ZeroAddress THEN Reverted(st)
  ELSE Returned([st EXCEPT !.owner = newOwner])

\* what a call of CustomToken leaves alone
notToken == <<runVars, pageVars, walletVars, nftVars>>

\* the transaction that carried the call op of sender is mined: r is how
\* the call ended
TokenCall(op, sender, r) ==
  /\ token' = IF r.ok THEN r.st ELSE token
  /\ tokLast' = [op |-> op, sender |-> sender, ok |-> r.ok]
  /\ UNCHANGED notToken

\* the template is deployed; a session of the builder deploys one contract
DeployToken(sender, minted) ==
  /\ token = NoToken
  /\ nft = NoNft
  /\ TokenCall("constructor", sender, constructor(token, sender, minted))

TokenDeployed == token.owner # ZeroAddress

CallTransfer(sender, to, amount) ==
  /\ TokenDeployed
  /\ TokenCall("transfer", sender, transfer(token, sender, to, amount))

CallApprove(sender, spender, amount) ==
  /\ TokenDeployed
  /\ TokenCall("approve", sender, approve(token, sender, spender, amount))

CallIncreaseAllowance(sender, spender, addedValue) ==
  /\ TokenDeployed
  /\ TokenCall("increaseAllowance", sender,
               increaseAllowance(token, sender, spender, addedValue))

CallDecreaseAllowance(sender, spender, subtractedValue) ==
  /\ TokenDeployed
  /\ TokenCall("decreaseAllowance", sender,
               decreaseAllowance(token, sender, spender, subtractedValue))

CallTransferFrom(sender, from, to, amount) ==
  /\ TokenDeployed
  /\ TokenCall("transferFrom", sender,
               transferFrom(token, sender, from, to, amount))

CallMint(sender, to, amount) ==
  /\ TokenDeployed
  /\ TokenCall("mint", sender, mint(token, sender, to, amount))

CallBurn(sender, amount) ==
  /\ TokenDeployed
  /\ TokenCall("burn", sender, burn(token, sender, amount))

CallTransferOwnership(sender, newOwner) ==
  /\ TokenDeployed
  /\ TokenCall("transferOwnership", sender,
               transferOwnership(token, sender, newOwner))

TokenNext ==
  \/ \E sender \in Accounts, minted \in Amounts : DeployToken(sender, minted)
  \/ \E sender \in Accounts, to \in Named, amount \in Amounts :
       CallTransfer(sender, to, amount)
  \/ \E sender \in Accounts, amount \in Amounts :
       \E spender \in Spenders(sender) : CallApprove(sender, spender, amount)
  \/ \E sender \in Accounts, amount \in Amounts :
       \E spender \in Spenders(sender) : CallIncreaseAllowance(sender, spender, amount)
  \/ \E sender \in Accounts, amount \in Amounts :
       \E spender \in Spenders(sender) : CallDecreaseAllowance(sender, spender, amount)
  \/ \E sender \in Accounts, from \in Named, to \in Named, amount \in Amounts :
       CallTransferFrom(sender, from, to, amount)
  \/ \E sender \in Accounts, to \in Named, amount \in Amounts :
       CallMint(sender, to, amount)
  \/ \E sender \in Accounts, amount \in Amounts : CallBurn(sender, amount)
  \/ \E sender \in Accounts, newOwner \in Named :
       CallTransferOwnership(sender, newOwner)

TemplateInit ==
  /\ RunAtRest
  /\ ViewAtRest
  /\ WalletAtRest
  /\ TemplatesAtRest

(***************************************************************************)
(* NFT_BASE: contract CustomNFT.                                           *)
(***************************************************************************)
\* the addresses that can hold a token
Holders == Accounts \cup Contracts

\* the value setTokenURI and setBaseURI are called with: the base URI the
\* builder proposes
Uris == {"ipfs://"}

\* constructor(name_, symbol_, baseURI_), with defaultParams.baseURI
constructor721(st, sender) ==
  Returned([st EXCEPT !.baseURI = "ipfs://", !.owner = sender])

\* require(owner_ != address(0), "Token doesn't exist") of ownerOf
Exists(st, tokenId) == st.owners[tokenId] # ZeroAddress

isApprovedForAll(st, owner_, operator) == st.operatorApprovals[owner_][operator]

approve721(st, sender, to, tokenId) ==
  IF ~Exists(st, tokenId) THEN Reverted(st)
  ELSE LET owner_ == st.owners[tokenId]
       IN  IF ~(sender = owner_ \/ isApprovedForAll(st, owner_, sender))
           THEN Reverted(st)
           ELSE Returned([st EXCEPT !.tokenApprovals[tokenId] = to])

setApprovalForAll(st, sender, operator, approved) ==
  IF ~(sender # operator) THEN Reverted(st)
  ELSE Returned([st EXCEPT !.operatorApprovals[sender][operator] = approved])

\* _isApprovedOrOwner(spender, tokenId), for a token that exists
IsApprovedOrOwner(st, spender, tokenId) ==
  LET owner_ == st.owners[tokenId]
  IN  \/ spender = owner_
      \/ st.tokenApprovals[tokenId] = spender
      \/ isApprovedForAll(st, owner_, spender)

transferFrom721(st, sender, from, to, tokenId) ==
  IF ~Exists(st, tokenId) THEN Reverted(st)
  ELSE IF ~IsApprovedOrOwner(st, sender, tokenId) THEN Reverted(st)
  ELSE IF ~(st.owners[tokenId] = from) THEN Reverted(st)
  ELSE IF ~(to # ZeroAddress) THEN Reverted(st)
  ELSE LET s1 == [st EXCEPT !.tokenApprovals[tokenId] = ZeroAddress,
                            !.balances[from] = Wrap(@ - 1)]
       IN  IF s1.balances[to] + 1 > MaxUint THEN Reverted(s1)
           ELSE Returned([s1 EXCEPT !.balances[to] = @ + 1,
                                    !.owners[tokenId] = to])

\* extcodesize(addr) > 0
IsContract(addr) == addr \in Contracts

\* _checkOnERC721Received(from, to, tokenId): return true
CheckOnERC721Received(from, to, tokenId) == TRUE

\* _checkERC721Support(to, tokenId): the external call to this contract
\* does not fail, the try returns what it returned
CheckERC721Support(sender, to, tokenId) ==
  CheckOnERC721Received(sender, to, tokenId)

safeTransferFrom(st, sender, from, to, tokenId) ==
  LET r == transferFrom721(st, sender, from, to, tokenId)
  IN  IF ~r.ok THEN r
      ELSE IF IsContract(to) /\ ~CheckERC721Support(sender, to, tokenId)
           THEN Reverted(r.st)
           ELSE r

\* function mint(address to) public onlyOwner returns (uint256)
mint721(st, sender, to) ==
  IF ~(sender = st.owner) THEN Reverted(st)
  ELSE IF ~(to # ZeroAddress) THEN Reverted(st)
  ELSE IF st.nextTokenId + 1 > MaxUint THEN Reverted(st)
  ELSE LET tokenId == st.nextTokenId
           s1 == [st EXCEPT !.nextTokenId = @ + 1, !.owners[tokenId] = to]
       IN  IF s1.balances[to] + 1 > MaxUint THEN Reverted(s1)
           ELSE Returned([s1 EXCEPT !.balances[to] = @ + 1])

setTokenURI(st, sender, tokenId, uri) ==
  IF ~(sender = st.owner) THEN Reverted(st)
  ELSE IF ~Exists(st, tokenId) THEN Reverted(st)
  ELSE Returned([st EXCEPT !.tokenURIs[tokenId] = uri])

setBaseURI(st, sender, newBaseURI) ==
  IF ~(sender = st.owner) THEN Reverted(st)
  ELSE Returned([st EXCEPT !.baseURI = newBaseURI])

transferOwnership721(st, sender, newOwner) ==
  IF ~(sender = st.owner) THEN Reverted(st)
  ELSE IF ~(newOwner # ZeroAddress) THEN Reverted(st)
  ELSE Returned([st EXCEPT !.owner = newOwner])

\* what a call of CustomNFT leaves alone
notNft == <<runVars, pageVars, walletVars, tokenVars>>

\* the transaction that carried the call op of sender is mined: r is how
\* the call ended
NftCall(op, sender, r) ==
  /\ nft' = IF r.ok THEN r.st ELSE nft
  /\ nftLast' = [op |-> op, sender |-> sender, ok |-> r.ok]
  /\ UNCHANGED notNft

\* the template is deployed; a session of the builder deploys one contract
DeployNft(sender) ==
  /\ token = NoToken
  /\ nft = NoNft
  /\ NftCall("constructor", sender, constructor721(nft, sender))

NftDeployed == nft.owner # ZeroAddress

CallApprove721(sender, to, tokenId) ==
  /\ NftDeployed
  /\ NftCall("approve", sender, approve721(nft, sender, to, tokenId))

CallSetApprovalForAll(sender, operator, approved) ==
  /\ NftDeployed
  /\ NftCall("setApprovalForAll", sender,
             setApprovalForAll(nft, sender, operator, approved))

CallTransferFrom721(sender, from, to, tokenId) ==
  /\ NftDeployed
  /\ NftCall("transferFrom", sender,
             transferFrom721(nft, sender, from, to, tokenId))

CallSafeTransferFrom(sender, from, to, tokenId) ==
  /\ NftDeployed
  /\ NftCall("safeTransferFrom", sender,
             safeTransferFrom(nft, sender, from, to, tokenId))

\* the collection is followed up to MaxTokens tokens
CallMint721(sender, to) ==
  /\ NftDeployed
  /\ nft.nextTokenId < MaxTokens
  /\ NftCall("mint", sender, mint721(nft, sender, to))

CallSetTokenURI(sender, tokenId, uri) ==
  /\ NftDeployed
  /\ NftCall("setTokenURI", sender, setTokenURI(nft, sender, tokenId, uri))

CallSetBaseURI(sender, newBaseURI) ==
  /\ NftDeployed
  /\ NftCall("setBaseURI", sender, setBaseURI(nft, sender, newBaseURI))

CallTransferOwnership721(sender, newOwner) ==
  /\ NftDeployed
  /\ NftCall("transferOwnership", sender,
             transferOwnership721(nft, sender, newOwner))

NftNext ==
  \/ \E sender \in Accounts : DeployNft(sender)
  \/ \E sender \in Accounts, to \in Named, tokenId \in TokenIds :
       CallApprove721(sender, to, tokenId)
  \/ \E sender \in Accounts, operator \in Accounts, approved \in BOOLEAN :
       CallSetApprovalForAll(sender, operator, approved)
  \/ \E sender \in Accounts, from \in Accounts, to \in Addresses,
        tokenId \in TokenIds :
       CallTransferFrom721(sender, from, to, tokenId)
  \/ \E sender \in Accounts, from \in Accounts, to \in Addresses,
        tokenId \in TokenIds :
       CallSafeTransferFrom(sender, from, to, tokenId)
  \/ \E sender \in Accounts, to \in Addresses : CallMint721(sender, to)
  \/ \E sender \in Accounts, tokenId \in TokenIds, uri \in Uris :
       CallSetTokenURI(sender, tokenId, uri)
  \/ \E sender \in Accounts, newBaseURI \in Uris :
       CallSetBaseURI(sender, newBaseURI)
  \/ \E sender \in Accounts, newOwner \in Named :
       CallTransferOwnership721(sender, newOwner)

TemplateNext == TokenNext \/ NftNext

TemplateSpec == TemplateInit /\ [][TemplateNext]_vars

(***************************************************************************)
(* What the claims speak of.                                               *)
(***************************************************************************)
\* the list a finished run has published: the reports of the reports page;
\* on the profile page the sorted records behind the published statistics
PublishedRecords == IF routine = "reports" THEN reports ELSE allAudits

RECURSIVE SumDelays(_)
SumDelays(ws) == IF ws = <<>> THEN 0 ELSE Head(ws).delay + SumDelays(Tail(ws))

Finished(c) == outcome[c] \in {"skipped", "success", "exhausted"}

\* the run is at a statement of the routine or has returned
Positions ==
  { "idle", "chainLoop", "while", "rpcLoop", "count", "bulk", "batchLoop",
    "pause", "roundEnd", "backoff", "afterWhile", "publish", "done" }

(***************************************************************************)
(* C1: the routine never rejects.  Whatever the endpoints answer, the run  *)
(* is at a statement of the routine, never left by an uncaught error, and  *)
(* once it has returned the loading flag is cleared, no error is set and a *)
(* (possibly empty) list of records of the configured networks is          *)
(* published.                                                              *)
(***************************************************************************)
Thm_C1_NeverRejects ==
  /\ pc \in Positions
  /\ pc = "done" =>
       /\ ~isLoading
       /\ error = "null"
       /\ \A k \in 1..Len(PublishedRecords) : PublishedRecords[k].chain \in Chains

\* a run has returned although a network met an error that is not a timeout
\* and was given up
Wit_C1_DoneAfterErrors ==
  /\ pc = "done"
  /\ ~onlyTimeouts
  /\ \E c \in Chains : outcome[c] = "exhausted"

(***************************************************************************)
(* C2: every run eventually finishes and publishes, the loading flag       *)
(* cleared, even when endpoints never answer.                              *)
(***************************************************************************)
Thm_C2_EventuallyPublished == <>(pc = "done" /\ ~isLoading)

\* a run has returned although no endpoint of its last network ever answered
Wit_C2_DoneAfterSilence ==
  /\ pc = "done"
  /\ ~isLoading
  /\ contractAddress[NumChains]
  /\ outcome[NumChains] = "exhausted"
  /\ onlyTimeouts
  /\ Len(attempts) = maxRetries * NumRpc

(***************************************************************************)
(* C3: the records a network contributes to the published result are all   *)
(* the records of one accepted response (after the identity filter), or    *)
(* none.                                                                   *)
(***************************************************************************)
Cex_C3_AllOrNothing ==
  pc = "done" =>
    \A c \in Chains :
      \/ Contribution(c, PublishedRecords) = <<>>
      \/ /\ acceptedLen[c] >= 0
         /\ Contribution(c, PublishedRecords)
              = SortByTimestamp(ResponseRecords(c, acceptedLen[c]))

(***************************************************************************)
(* C4: a response whose parallel arrays differ in length is rejected with  *)
(* a format error: the attempt has failed and nothing was added.           *)
(***************************************************************************)
Cex_C4_MismatchRejected ==
  Mismatched(result) =>
    /\ pc = "rpcLoop"
    /\ lastLog = "error"
    /\ ~success
    /\ allAudits = attemptBase

(***************************************************************************)
(* C5: right after a failed attempt the accumulated list is the list the   *)
(* attempt began with.                                                     *)
(***************************************************************************)
Cex_C5_FailureLeavesList ==
  (pc = "rpcLoop" /\ lastLog \in {"warn", "error"}) => allAudits = attemptBase

(***************************************************************************)
(* C6: a network that exhausts its rounds contributes nothing, every       *)
(* network is still processed, and all records of the networks that        *)
(* succeeded are published.                                                *)
(***************************************************************************)
Cex_C6_SoftFailure ==
  pc = "done" =>
    \A c \in Chains :
      /\ Finished(c)
      /\ outcome[c] = "exhausted" => Contribution(c, PublishedRecords) = <<>>
      /\ outcome[c] = "success" =>
           \A k \in 1..Len(ResponseRecords(c, acceptedLen[c])) :
             \E j \in 1..Len(PublishedRecords) :
               PublishedRecords[j] = ResponseRecords(c, acceptedLen[c])[k]

(***************************************************************************)
(* C7: a network whose every attempt timed out is given up after 3 rounds  *)
(* with no records.  As claimed, the waits sum to baseDelay*(2+4+8); as    *)
(* amended, to baseDelay*(2+4) = 12000 ms, there being two waits.          *)
(***************************************************************************)
AllTimedOut == pc = "afterWhile" /\ ~success /\ onlyTimeouts

Cex_C7_WaitsSumTo28000 ==
  AllTimedOut =>
    /\ Contribution(chainIdx, allAudits) = <<>>
    /\ retryCount = 3
    /\ SumDelays(waits) = baseDelay * (2 + 4 + 8)

Thm_C7_WaitsSumTo12000 ==
  AllTimedOut =>
    /\ Contribution(chainIdx, allAudits) = <<>>
    /\ retryCount = 3
    /\ Len(attempts) = 3 * NumRpc
    /\ Len(waits) = 2
    /\ SumDelays(waits) = 12000

Wit_C7_AllTimedOut == AllTimedOut /\ chainIdx = NumChains

(***************************************************************************)
(* C8: a wait is begun only when the round just ended had no success, and  *)
(* the k-th wait of a network, which follows its k-th failed round, lasts  *)
(* baseDelay * 2^k: 4000 ms, then 8000 ms, each the double of the one      *)
(* before.                                                                 *)
(***************************************************************************)
Thm_C8_BackoffDoubles ==
  /\ pc = "backoff" => (~success /\ acceptedLen[chainIdx] = -1 /\ waits # <<>>)
  /\ \A k \in 1..Len(waits) :
       /\ waits[k].at = k * NumRpc
       /\ waits[k].delay = 2000 * (2 ^ k)
       /\ k = 1 => waits[k].delay = 4000
       /\ k = 2 => waits[k].delay = 8000
       /\ k > 1 => waits[k].delay = 2 * waits[k - 1].delay

Wit_C8_SecondWait == pc = "backoff" /\ Len(waits) = 2

(***************************************************************************)
(* C9: for a network at most 3 rounds are made and an endpoint is tried at *)
(* most once in a round, so at most 3 * (number of endpoints) attempts;    *)
(* and a network is taken up once only.                                    *)
(***************************************************************************)
Thm_C9_AttemptsBounded ==
  /\ \A k \in 1..Len(attempts) :
       /\ attempts[k][1] \in 1..3
       /\ attempts[k][2] \in 1..NumRpc
       /\ \A j \in 1..(k - 1) : attempts[j] # attempts[k]
  /\ Len(attempts) <= 3 * NumRpc
  /\ \A k \in 1..Len(started) : \A j \in 1..(k - 1) : started[j] # started[k]

Wit_C9_AllAttemptsMade == Len(attempts) = 3 * NumRpc /\ pc = "count"

(***************************************************************************)
(* C10: in a round the endpoints are tried in the order of the endpoint    *)
(* list, a new round begins again at the first endpoint, and the networks  *)
(* are taken in configuration order, one begun only when the one before    *)
(* has succeeded, was given up or was skipped.                             *)
(***************************************************************************)
Thm_C10_Order ==
  /\ \A k \in 1..Len(attempts) :
       attempts[k] = << ((k - 1) \div NumRpc) + 1, ((k - 1) % NumRpc) + 1 >>
  /\ pc = "count" => attempts[Len(attempts)] = <<retryCount + 1, rpcIdx>>
  /\ (pc = "roundEnd" /\ ~success) => Len(attempts) = (retryCount + 1) * NumRpc
  /\ \A k \in 1..Len(started) :
       /\ started[k] = k
       /\ \A j \in 1..(k - 1) : Finished(started[j])
  /\ \A c \in Chains : outcome[c] # "none" => \E k \in 1..Len(started) : started[k] = c

Wit_C10_SecondNetworkSecondRound ==
  /\ Len(started) = NumChains
  /\ outcome[1] = "exhausted"
  /\ pc = "count"
  /\ attempts[Len(attempts)] = <<2, 1>>

(***************************************************************************)
(* C11: no two registry calls for the same network are outstanding at the  *)
(* same time: when the routine awaits a call, no call it gave up at its    *)
(* timeout is still outstanding.                                           *)
(***************************************************************************)
\* the number of calls to network chainIdx that have not settled
Outstanding ==
  (IF pc \in {"count", "bulk"} THEN 1 ELSE 0) + (IF abandoned THEN 1 ELSE 0)

Cex_C11_OneCallAtATime == Outstanding <= 1

(***************************************************************************)
(* C12: at most one aggregation run is in flight at a time: a new run      *)
(* never starts while an earlier run has not finished.                     *)
(***************************************************************************)
RunsInFlight == earlier + (IF pc \in {"idle", "done"} THEN 0 ELSE 1)

Cex_C12_OneRunAtATime == RunsInFlight <= 1

(***************************************************************************)
(* C13: the epilogue publishes a permutation of the accumulated records in *)
(* which no record is followed by one with a greater timestamp, whichever  *)
(* network each came from.                                                 *)
(***************************************************************************)
Count(s, r) == Cardinality({k \in 1..Len(s) : s[k] = r})

IsPermutation(s, t) ==
  /\ Len(s) = Len(t)
  /\ \A k \in 1..Len(s) : Count(s, s[k]) = Count(t, s[k])

NonIncreasing(s) == \A k \in 1..(Len(s) - 1) : s[k].timestamp >= s[k + 1].timestamp

Thm_C13_PublishedSorted ==
  [][pc = "publish" =>
       /\ pc' = "done"
       /\ IsPermutation(PublishedRecords', allAudits)
       /\ NonIncreasing(PublishedRecords')]_vars

\* a published list in which a record of the second network precedes an older
\* record of the first
Wit_C13_Interleaved ==
  /\ pc = "done"
  /\ \E k \in 1..(Len(reports) - 1) :
       /\ reports[k].chain = 2
       /\ reports[k + 1].chain = 1
       /\ reports[k].timestamp > reports[k + 1].timestamp
  /\ \E k \in 1..(Len(reports) - 1) :
       /\ reports[k].chain = 1
       /\ reports[k + 1].chain = 2

(***************************************************************************)
(* C14: with the identity filter, every record the profile routine holds   *)
(* or shows is a registry record whose submitter equals the user's address *)
(* up to letter case, and every such record of a response accepted in full *)
(* is held.                                                                *)
(***************************************************************************)
SameLetter(a, b) ==
  \/ a = b
  \/ {a, b} \in {{"a", "A"}, {"b", "B"}, {"c", "C"}, {"d", "D"}}

EqualIgnoringCase(x, y) ==
  /\ Len(x) = Len(y)
  /\ \A k \in 1..Len(x) : SameLetter(x[k], y[k])

\* audit k of network c was submitted by the user
SubmittedByUser(c, k) == EqualIgnoringCase(RegistryAt(c, k).auditor, userAddress)

OfUser(r) ==
  \E k \in 1..RegSize : r = UserAuditOf(r.chain, k - 1) /\ SubmittedByUser(r.chain, k)

Holds(list, r) == \E j \in 1..Len(list) : list[j] = r

Strip(r) ==
  [ contractHash |-> r.contractHash, stars |-> r.stars, summary |-> r.summary,
    timestamp |-> r.timestamp, chain |-> r.chain ]

Restrict(list) ==
  LET kept == SelectSeq(list, LAMBDA r : EqualIgnoringCase(r.auditor, userAddress))
  IN [k \in 1..Len(kept) |-> Strip(kept[k])]

BatchRaises(rt) ==
  RunBatch(rt, result, chainIdx, i,
           [ audits |-> <<>>, counts |-> chainCounts, stars |-> 0,
             thrown |-> FALSE ]).thrown

AfterSuccess == success /\ pc \in {"roundEnd", "while", "afterWhile"}

AfterZeroCount ==
  lastLog = "empty" /\ success /\ pc \in {"roundEnd", "while", "afterWhile"}

TaggedWithSource(r) ==
  /\ r.chain \in Chains
  /\ \E k \in 1..RegSize :
       LET a == RegistryAt(r.chain, k)
       IN /\ r.contractHash = a.contractHash
          /\ r.stars = a.stars
          /\ r.summary = a.summary
          /\ r.timestamp = a.timestamp
          /\ routine = "reports" => r.auditor = a.auditor

AllTagged(list) == \A j \in 1..Len(list) : TaggedWithSource(list[j])

Thm_C18_TagPreserved ==
  /\ AllTagged(allAudits)
  /\ AllTagged(reports)
  /\ AllTagged(stats.recentAudits)
  /\ pc \in {"batchLoop", "pause"} =>
       \A j \in (Len(attemptBase) + 1)..Len(allAudits) : allAudits[j].chain = chainIdx
  /\ \A c \in Chains : c > chainIdx => Contribution(c, allAudits) = <<>>
  /\ pc = "done" =>
       \A c \in Chains :
         Len(Contribution(c, PublishedRecords)) = Len(Contribution(c, allAudits))

\* two published records with the same contract hash, one of each network
Wit_C18_SameHashTwoNetworks ==
  /\ pc = "done"
  /\ routine = "reports"
  /\ \E j, k \in 1..Len(reports) :
       /\ reports[j].contractHash = reports[k].contractHash
       /\ reports[j].chain = 1
       /\ reports[k].chain = 2
       /\ j > k

(***************************************************************************)
(* C19.  A successful response of n records is processed in ceil(n / 50)   *)
(* consecutive chunks, each of 50 records except possibly the last (120    *)
(* records as 50, 50 and 20), with a pause after each chunk; every index   *)
(* is processed exactly once and in increasing order, so that, without a   *)
(* filter, the n records of the response are returned, each attributed to  *)
(* the network that answered.                                              *)
(***************************************************************************)
ChunksNeeded(n) == (n + batchSize - 1) \div batchSize

\* the number of records the chunks processed so far cover
Covered(n) == Min(Len(chunks) * batchSize, n)

ChunksOf(n) ==
  \A k \in 1..Len(chunks) :
    /\ chunks[k].from = (k - 1) * batchSize
    /\ chunks[k].size = Min(batchSize, n - (k - 1) * batchSize)
    /\ chunks[k].size >= 1

\* the indices below k whose record the routine keeps
KeptIndices(k) ==
  {j \in 0..(k - 1) :
     routine = "reports" \/ Matches(RegistryAt(chainIdx, j + 1).auditor)}

RecordOfIndex(j) ==
  IF routine = "reports" THEN AuditReportOf(chainIdx, j)
                         ELSE UserAuditOf(chainIdx, j)

\* the records accumulated are those of the indices 0 .. k-1 of the response,
\* one for each index (each matching index, in the profile routine), in
\* increasing order of the index
ProcessedInOrder(k) ==
  LET kept == KeptIndices(k) IN
  /\ Len(allAudits) = Len(attemptBase) + Cardinality(kept)
  /\ routine = "reports" => Cardinality(kept) = k
  /\ \A j \in kept :
       allAudits[Len(attemptBase) + Cardinality({x \in kept : x < j}) + 1]
         = RecordOfIndex(j)

Thm_C19_Chunks ==
  /\ pc \in {"batchLoop", "pause"} =>
       /\ ChunksOf(result.n)
       /\ Len(chunks) <= ChunksNeeded(result.n)
       /\ ProcessedInOrder(Covered(result.n))
  /\ pc = "batchLoop" =>
       /\ i = Len(chunks) * batchSize
       /\ \A k \in 1..Len(chunks) : chunks[k].paused
  /\ pc = "pause" =>
       /\ i = (Len(chunks) - 1) * batchSize
       /\ \A k \in 1..Len(chunks) : chunks[k].paused <=> k < Len(chunks)
  /\ (pc = "roundEnd" /\ success /\ acceptedLen[chainIdx] > 0) =>
       /\ ChunksOf(acceptedLen[chainIdx])
       /\ Len(chunks) = ChunksNeeded(acceptedLen[chainIdx])
       /\ \A k \in 1..Len(chunks) : chunks[k].paused
       /\ ProcessedInOrder(acceptedLen[chainIdx])
  /\ (pc = "done" /\ routine = "reports") =>
       /\ Len(reports) = acceptedLen[NumChains]
       /\ \A k \in 1..Len(reports) : reports[k].chain = NumChains

\* 120 records were processed as 50, 50 and 20
Wit_C19_ThreeChunks ==
  /\ pc = "roundEnd"
  /\ success
  /\ routine = "reports"
  /\ Len(chunks) = 3
  /\ chunks[1].size = batchSize
  /\ chunks[2].size = batchSize
  /\ chunks[3].size = 20
  /\ Len(allAudits) = 2 * batchSize + 20

(***************************************************************************)
(* C20.  The recent view of the profile holds exactly the first min(5, n)  *)
(* of the n matching records sorted by descending timestamp: it never has  *)
(* more than 5 entries, and no record left out is more recent than a       *)
(* record shown.                                                           *)
(***************************************************************************)
RecentViewOf(matching, sorted, view) ==
  /\ IsPermutation(sorted, matching)
  /\ NonIncreasing(sorted)
  /\ Len(view) = Min(recentCount, Len(matching))
  /\ Len(view) <= recentCount
  /\ view = SubSeq(sorted, 1, Len(view))
  /\ \A j \in (Len(view) + 1)..Len(sorted) :
       \A k \in 1..Len(view) : sorted[j].timestamp <= view[k].timestamp

Thm_C20_RecentView ==
  [][(pc = "publish" /\ routine = "profile") =>
       /\ pc' = "done"
       /\ stats'.totalAudits = Len(allAudits)
       /\ RecentViewOf(allAudits, allAudits', stats'.recentAudits)]_vars

\* more than five records matched, and an older one was left out
Wit_C20_Truncated ==
  /\ pc = "done"
  /\ routine = "profile"
  /\ stats.totalAudits > recentCount
  /\ Len(stats.recentAudits) = recentCount
  /\ \E j \in (recentCount + 1)..Len(allAudits) :
       allAudits[j].timestamp < stats.recentAudits[recentCount].timestamp

(***************************************************************************)
(* C21.  Every error raised during an endpoint attempt, whether it is      *)
(* classified transient (logged as a warning) or not (logged as an error), *)
(* is caught and leads to the next endpoint of the same round, or to the   *)
(* end of the round after the last endpoint; no class of error ends the    *)
(* rounds of the network early or aborts the run.                          *)
(***************************************************************************)
AttemptPositions == {"count", "bulk", "batchLoop", "pause"}

\* the step is the catch block taking over from an attempt
Caught == pc \in AttemptPositions /\ pc' = "rpcLoop"

Thm_C21_ErrorsCaught ==
  [][/\ pc \in AttemptPositions =>
          /\ pc' \in AttemptPositions \cup {"rpcLoop", "roundEnd"}
          /\ pc' = "roundEnd" => success'
          /\ UNCHANGED <<chainIdx, retryCount, waits, outcome, reactVars>>
     /\ Caught =>
          /\ lastLog' \in {"warn", "error"}
          /\ rpcIdx' = rpcIdx + 1
          /\ ~success'
          /\ UNCHANGED attempts
     /\ (pc = "rpcLoop" /\ lastLog \in {"warn", "error"}) =>
          /\ UNCHANGED <<chainIdx, retryCount, success, waits, outcome, reactVars>>
          /\ IF rpcIdx <= NumRpc
               THEN /\ pc' = "count"
                    /\ attempts' = Append(attempts, <<retryCount + 1, rpcIdx>>)
               ELSE /\ pc' = "roundEnd"
                    /\ UNCHANGED attempts]_vars

\* an error that is not transient was caught at the first endpoint, and the
\* second endpoint of the round is about to be tried
Wit_C21_NextAfterFormatError ==
  /\ pc = "rpcLoop"
  /\ lastLog = "error"
  /\ rpcIdx = 2
  /\ Len(attempts) = 1

(***************************************************************************)
(* C22.  Each call is bounded by its timer: while the routine awaits the   *)
(* count query or the bulk fetch the timer can fire, and when it does the  *)
(* attempt fails and the routine moves on to the next endpoint; a response *)
(* of the abandoned call that arrives later changes neither the            *)
(* accumulated records nor the success flag of the network, nor anything   *)
(* else of the run.                                                        *)
(***************************************************************************)
\* the step gives up the awaited call at its timeout
TimedOut == pc \in {"count", "bulk"} /\ pc' = "rpcLoop" /\ ~abandoned /\ abandoned'

\* the step is the abandoned call settling
LateArrival == abandoned /\ ~abandoned' /\ pc' = pc

Thm_C22_TimeoutBounds ==
  [][/\ pc = "count" => ENABLED CountTimeout
     /\ pc = "bulk" => ENABLED BulkTimeout
     /\ TimedOut =>
          /\ lastLog' = "warn"
          /\ rpcIdx' = rpcIdx + 1
          /\ ~success'
          /\ UNCHANGED <<accVars, reactVars, chainIdx, retryCount, acceptedLen>>
     /\ LateArrival =>
          UNCHANGED << accVars, success, reactVars, chainIdx, retryCount, rpcIdx,
                       respVars, lastLog, roundVars, netVars, acceptedLen,
                       twin, calls >>]_vars

\* the first endpoint was given up at its timeout, the second is being
\* asked, and the answer of the first has arrived in the meantime
Wit_C22_LateAnswerIgnored ==
  /\ watch
  /\ pc = "count"
  /\ Len(attempts) = 2
  /\ onlyTimeouts
  /\ ~abandoned
  /\ ~success
  /\ allAudits = attemptBase

(***************************************************************************)
(* C23.  A network that exhausted all its rounds leaves in the published   *)
(* state exactly what a network that confirmed a zero count leaves:        *)
(* no record of the network, a zero count for it in the profile            *)
(* statistics, a null error value and a cleared loading flag; so two runs  *)
(* that differ only in which of the two happened publish identical state.  *)
(***************************************************************************)
ConfirmedEmpty(c) == outcome[c] = "success" /\ acceptedLen[c] = 0

GaveUp(c) == outcome[c] = "exhausted"

LeavesNothing(c) ==
  /\ Contribution(c, PublishedRecords) = <<>>
  /\ routine = "profile" => stats.chainBreakdown[c] = 0

Cex_C23_FailureLooksEmpty ==
  pc = "done" =>
    /\ error = "null"
    /\ ~isLoading
    /\ \A c \in Chains : (GaveUp(c) \/ ConfirmedEmpty(c)) => LeavesNothing(c)

(***************************************************************************)
(* C24.  Every endpoint attempt emits an attempt trace before its first    *)
(* call, every failed attempt emits a failure trace, every backoff wait    *)
(* is preceded by a retry trace, and a network that exhausts all its       *)
(* rounds emits the final failure trace exactly once, in the one step in   *)
(* which its processing ends; a network that succeeds never emits it.      *)
(***************************************************************************)
\* the step emits the final failure trace
EmitsFinalFailure == lastLog # "failed" /\ lastLog' = "failed"

Thm_C24_Traces ==
  [][/\ (pc # "count" /\ pc' = "count") =>
          /\ lastLog' = "attempt"
          /\ calls = <<>>
          /\ calls' = <<"count">>
          /\ Len(attempts') = Len(attempts) + 1
     /\ calls' # calls => (calls' = <<>> \/ lastLog' \in {"attempt", "total"})
     /\ Caught => lastLog' \in {"warn", "error"}
     /\ (pc' = "backoff" \/ Len(waits') > Len(waits)) =>
          (pc = "backoff" \/ (lastLog' = "retry" /\ pc' = "backoff"
                               /\ Len(waits') = Len(waits) + 1))
     /\ EmitsFinalFailure =>
          /\ pc = "afterWhile"
          /\ ~success
          /\ retryCount = maxRetries
          /\ outcome[chainIdx] = "none"
          /\ outcome'[chainIdx] = "exhausted"
     /\ \A c \in Chains :
          /\ outcome[c] # "none" => outcome'[c] = outcome[c]
          /\ (outcome[c] = "none" /\ outcome'[c] = "exhausted") => EmitsFinalFailure
          /\ (outcome[c] = "none" /\ outcome'[c] \in {"success", "skipped"}) =>
               lastLog' # "failed"]_vars

\* the first network was given up after its last round and the final
\* failure trace is the last event
Wit_C24_FinalFailureTrace ==
  /\ pc = "chainLoop"
  /\ chainIdx = 2
  /\ outcome[1] = "exhausted"
  /\ lastLog = "failed"
  /\ Len(waits) = maxRetries - 1

(***************************************************************************)
(* C25.  Each record of a network's registry appears at most once in the   *)
(* published result, and is counted at most once in the statistics of the  *)
(* profile, whatever failures and retries preceded the successful attempt  *)
(* for that network.                                                       *)
(***************************************************************************)
\* the published record of audit k of network c
PublishedForm(c, k) ==
  IF routine = "reports" THEN AuditReportOf(c, k - 1) ELSE UserAuditOf(c, k - 1)

\* the audits of network c's registry that the routine keeps
KeptOfRegistry(c) ==
  {k \in 1..RegSize : routine = "reports" \/ Matches(RegistryAt(c, k).auditor)}

Cex_C25_NoDuplicates ==
  pc = "done" =>
    \A c \in Chains :
      /\ \A k \in 1..RegSize : Count(PublishedRecords, PublishedForm(c, k)) <= 1
      /\ routine = "profile" =>
           stats.chainBreakdown[c] <= Cardinality(KeptOfRegistry(c))

(***************************************************************************)
(* C26.  On the profile page, once all the runs that were started have     *)
(* finished, the published statistics are those computed by the run that   *)
(* was started last: the result of an older run never replaces the result  *)
(* of a newer one.                                                         *)
(***************************************************************************)
AllRunsFinished == pc = "done" /\ earlier = 0

\* what the run started last handed to setStats
LatestResult == StatsOf(allAudits, chainCounts, totalStars)

Cex_C26_LatestRunWins ==
  (routine = "profile" /\ AllRunsFinished) => stats = LatestResult

(***************************************************************************)
(* C27.  The loading flag is true whenever at least one aggregation run    *)
(* is in flight, and it becomes false only when no run is still in         *)
(* flight.                                                                 *)
(***************************************************************************)
Cex_C27_LoadingWhileInFlight ==
  /\ RunsInFlight > 0 => isLoading
  /\ (pc = "done" /\ ~isLoading) => earlier = 0

(***************************************************************************)
(* C28.  After the third and last failed round of a network no backoff     *)
(* wait is performed: the routine goes on at once to the next network or   *)
(* to publishing.  A wait is therefore always followed by another round    *)
(* of attempts for the same network.                                       *)
(***************************************************************************)
LastRoundFailed == pc = "roundEnd" /\ ~success /\ retryCount = maxRetries - 1

Thm_C28_NoWaitAfterLastRound ==
  [][/\ LastRoundFailed =>
          /\ pc' = "while"
          /\ retryCount' = maxRetries
          /\ UNCHANGED <<waits, lastLog, chainIdx>>
     /\ (pc = "while" /\ retryCount = maxRetries) =>
          /\ pc' = "afterWhile"
          /\ UNCHANGED <<waits, chainIdx>>
     /\ pc = "afterWhile" =>
          /\ pc' = "chainLoop"
          /\ chainIdx' = chainIdx + 1
          /\ UNCHANGED waits
          /\ ~success => Len(waits) = maxRetries - 1
     /\ pc = "backoff" =>
          /\ ~success
          /\ retryCount < maxRetries
          /\ Len(waits) = retryCount
          /\ waits[Len(waits)].at = Len(attempts)
          /\ pc' = "while"
          /\ UNCHANGED <<chainIdx, retryCount, success, roundVars>>
     /\ (pc = "while" /\ ~success /\ retryCount < maxRetries) =>
          /\ pc' = "rpcLoop"
          /\ rpcIdx' = 1
          /\ UNCHANGED <<chainIdx, retryCount>>
     /\ (pc = "rpcLoop" /\ rpcIdx = 1) =>
          /\ pc' = "count"
          /\ attempts' = Append(attempts, <<retryCount + 1, 1>>)
          /\ UNCHANGED chainIdx]_vars

\* the third round of a network has failed and its processing ends, two
\* waits having been made, the last of them before the third round
Wit_C28_GivenUpWithoutWait ==
  /\ pc = "afterWhile"
  /\ ~success
  /\ retryCount = maxRetries
  /\ Len(waits) = maxRetries - 1
  /\ waits[Len(waits)].at < Len(attempts)
  /\ lastLog \in {"warn", "error"}

(***************************************************************************)
(* C29.  The statistics the profile publishes are consistent with each     *)
(* other after every run: totalAudits is the number of records             *)
(* accumulated for the user, each count of chainBreakdown is the number    *)
(* of accumulated records attributed to that network, the counts sum to    *)
(* totalAudits, and averageStars is the sum of the stars of those records  *)
(* divided by totalAudits, or 0 when there are none.                       *)
(***************************************************************************)
RECURSIVE SumCounts(_, _)
SumCounts(counts, c) == IF c = 0 THEN 0 ELSE counts[c] + SumCounts(counts, c - 1)

Zero == [num |-> 0, den |-> 1]

Thm_C29_StatsConsistent ==
  routine = "profile" =>
    /\ \A c \in Chains : chainCounts[c] = Len(Contribution(c, allAudits))
    /\ totalStars = SumStars(allAudits)
    /\ pc = "done" =>
         /\ stats.totalAudits = Len(allAudits)
         /\ \A c \in Chains :
              stats.chainBreakdown[c] = Len(Contribution(c, allAudits))
         /\ SumCounts(stats.chainBreakdown, NumChains) = stats.totalAudits
         /\ stats.averageStars =
              IF stats.totalAudits = 0 THEN Zero
              ELSE [num |-> SumStars(allAudits), den |-> stats.totalAudits]

\* a run has published statistics over records of two networks
Wit_C29_TwoNetworksCounted ==
  /\ routine = "profile"
  /\ pc = "done"
  /\ stats.chainBreakdown[1] >= 1
  /\ stats.chainBreakdown[2] >= 1
  /\ stats.averageStars.num > 0
  /\ stats.averageStars.den = stats.totalAudits

(***************************************************************************)
(* C30.  A configured network without a registry contract address is       *)
(* skipped: no endpoint is contacted and no backoff wait occurs for it,    *)
(* it contributes no records, and the networks after it are still          *)
(* processed.                                                              *)
(***************************************************************************)
Skipped(c) ==
  /\ chainIdx = c => pc = "chainLoop"
  /\ outcome[c] \in {"none", "skipped"}
  /\ chainIdx > c => outcome[c] = "skipped"
  /\ acceptedLen[c] = -1
  /\ Contribution(c, allAudits) = <<>>
  /\ Contribution(c, PublishedRecords) = <<>>
  /\ chainCounts[c] = 0

Thm_C30_MissingAddressSkipped ==
  /\ \A c \in Chains : ~contractAddress[c] => Skipped(c)
  /\ pc \in {"publish", "done"} =>
       /\ Len(started) = NumChains
       /\ \A c \in Chains :
            contractAddress[c] => outcome[c] \in {"success", "exhausted"}

\* the first network has no address; the second was read after it
Wit_C30_SecondNetworkRead ==
  /\ pc = "done"
  /\ ~contractAddress[1]
  /\ outcome[1] = "skipped"
  /\ outcome[2] = "success"
  /\ Len(PublishedRecords) >= 1

(***************************************************************************)
(* C31.  getFilteredReports returns a subsequence of the fetched reports   *)
(* (same relative order, records unaltered, the stored list unchanged)     *)
(* that holds exactly the reports satisfying every active criterion: the   *)
(* search text occurs in the hash or in the auditor whatever the case of   *)
(* the letters, the chain is the chosen one, the stars reach the minimum,  *)
(* the audit is no older than the range; with the default filters it       *)
(* returns all the reports.                                                *)
(***************************************************************************)
OccursIgnoringCase(text, s) ==
  \E o \in 0..(Len(s) - Len(text)) :
    \A k \in 1..Len(text) : SameLetter(s[o + k], text[k])

Satisfies(r) ==
  /\ \/ filters.search = <<>>
     \/ OccursIgnoringCase(filters.search, r.contractHash)
     \/ OccursIgnoringCase(filters.search, r.auditor)
  /\ filters.chain \in {AllChains, r.chain}
  /\ r.stars >= filters.minStars
  /\ \/ filters.dateRange = "all"
     \/ clock - r.timestamp <= ranges[filters.dateRange]

\* the place in the stored list of a report that is shown
PlaceOf(r) == CHOOSE p \in 1..Len(reports) : reports[p] = r

ShownAsClaimed ==
  /\ \A k \in 1..Len(shown) : Holds(reports, shown[k])
  /\ \A j, k \in 1..Len(shown) : j < k => PlaceOf(shown[j]) < PlaceOf(shown[k])
  /\ \A p \in 1..Len(reports) : Holds(shown, reports[p]) <=> Satisfies(reports[p])
  /\ filters = DefaultFilters => shown = reports

Thm_C31_FilteredReports ==
  [][ShownAsClaimed' /\ reports' = reports]_vars

\* a search typed in capitals and a minimum of stars are active: of three or
\* more reports some are shown and some are not
Wit_C31_SomeShown ==
  /\ filters.search = <<"C", "D">>
  /\ filters.minStars > 0
  /\ Len(reports) >= 3
  /\ Len(shown) >= 1
  /\ Len(shown) < Len(reports)

(***************************************************************************)
(* C32: a call of switchNetwork issues the switch request first; it       *)
(* issues the add request exactly when the switch was rejected with code  *)
(* 4902, and then nothing more; when the switch is rejected with another  *)
(* code the call throws that error, and when the add is rejected it       *)
(* throws the error of the add; without a wallet provider it throws and   *)
(* no request is issued.                                                   *)
(***************************************************************************)
SwitchFirst ==
  requests # <<>> => requests[1] = SwitchRequest(swChain)

AddOnlyAfter4902 ==
  /\ Len(requests) <= 2
  /\ Len(requests) = 2 <=>
       /\ answers # <<>>
       /\ answers[1].code = UnrecognizedChain
  /\ Len(requests) = 2 => requests[2] = AddRequest(swChain)

Rethrows ==
  swPc = "thrown" /\ ethereum =>
    /\ answers # <<>>
    /\ Len(answers) = Len(requests)
    /\ swError = answers[Len(answers)]
    /\ swError \in WalletErrors
    /\ Len(answers) = 1 => swError.code # UnrecognizedChain

ReturnsWhenGranted ==
  swPc = "returned" <=> (answers # <<>> /\ answers[Len(answers)] = Granted)

NoProviderNoRequest ==
  ~ethereum =>
    /\ requests = <<>>
    /\ answers = <<>>
    /\ swPc \in {"idle", "thrown"}
    /\ swPc = "thrown" => swError = InstallError

Thm_C32_SwitchNetwork ==
  /\ SwitchFirst
  /\ AddOnlyAfter4902
  /\ Rethrows
  /\ ReturnsWhenGranted
  /\ NoProviderNoRequest

\* the switch was rejected with 4902, the add was requested and rejected by
\* the user, and the call threw that
Wit_C32_AddRejected ==
  /\ swPc = "thrown"
  /\ Len(requests) = 2
  /\ answers[1].code = UnrecognizedChain
  /\ swError.code = 4001

(***************************************************************************)
(* C33: after every call of CustomToken, returned or reverted, by any     *)
(* account, totalSupply is the sum of the balances of all accounts, and   *)
(* a call that reverted has left the balances, the allowances and         *)
(* totalSupply as they were.                                               *)
(***************************************************************************)
RECURSIVE SumOf(_, _)
SumOf(f, S) ==
  IF S = {} THEN 0
  ELSE LET a == CHOOSE x \in S : TRUE IN f[a] + SumOf(f, S \ {a})

SupplyIsSum(st) == st.totalSupply = SumOf(st.balances, DOMAIN st.balances)

RevertKeeps ==
  ~tokLast'.ok =>
    /\ token'.balances = token.balances
    /\ token'.allowances = token.allowances
    /\ token'.totalSupply = token.totalSupply

Thm_C33_SupplyIsSum == [][SupplyIsSum(token') /\ RevertKeeps]_vars

\* a transferFrom has returned and has left the whole supply with its caller
Wit_C33_TransferFromReturned ==
  /\ tokLast.op = "transferFrom"
  /\ tokLast.ok
  /\ token.totalSupply > 0
  /\ token.balances[tokLast.sender] = token.totalSupply
  /\ token.owner # tokLast.sender

(***************************************************************************)
(* C34: in both templates a call of an owner-only function (mint and      *)
(* transferOwnership, and setTokenURI and setBaseURI of CustomNFT)        *)
(* returns only when its caller is the owner at the time of the call; a   *)
(* call by any other account reverts and leaves the storage of the        *)
(* contract, the owner included, as it was.                                *)
(***************************************************************************)
OwnerOnlyToken == {"mint", "transferOwnership"}

OwnerOnlyNft == {"mint", "transferOwnership", "setTokenURI", "setBaseURI"}

OwnerOnly(last, before, after) ==
  /\ last.ok => last.sender = before.owner
  /\ last.sender # before.owner => ~last.ok /\ after = before

Thm_C34_OwnerOnly ==
  [][ /\ tokLast'.op \in OwnerOnlyToken => OwnerOnly(tokLast', token, token')
      /\ nftLast'.op \in OwnerOnlyNft => OwnerOnly(nftLast', nft, nft') ]_vars

\* the owner of the collection has handed it to another account
Wit_C34_OwnershipMoved ==
  /\ nftLast.op = "transferOwnership"
  /\ nftLast.ok
  /\ nft.owner # nftLast.sender
  /\ nft.owner \in Accounts

(***************************************************************************)
(* C35: a safeTransferFrom of CustomNFT whose recipient is a contract     *)
(* that does not support receiving ERC721 tokens reverts, so that no      *)
(* safeTransferFrom that returned has made such a contract the owner of a *)
(* token.                                                                  *)
(***************************************************************************)
Cex_C35_SafeTransferReverts ==
  [][ nftLast'.op = "safeTransferFrom" /\ nftLast'.ok =>
        \A t \in TokenIds :
          nft'.owners[t] \in Contracts => nft'.owners[t] = nft.owners[t] ]_vars

====
